---- MODULE Spec2Model ----
(***************************************************************************)
(* antsim: the tick engine (antsim/app/main.py run_demo and                *)
(* BehaviorEngine._tick_with_tree), the behaviour-tree runtime, the intent *)
(* executor and the double-buffered pheromone field, as a state machine.   *)
(*                                                                         *)
(* Pheromone values are exact rationals: front[t][c] is a numerator over   *)
(* the common denominator ScaleAt(nswaps); deposits and the cells' local   *)
(* pheromone views are whole units.                                        *)
(***************************************************************************)
EXTENDS Integers, Sequences, FiniteSets, TLC

\* ------------------------------------------------------------------ bounds
W == 3
H == 2
NumAgents == 2
MaxTick == 2
MaxBatch == 2

\* ------------------------------------------------------------- parameters
\* alpha = alpha_num / AlphaDen, evaporation = evap_num / EvapDen
\* capacities of a worker's two stomachs and the largest food source,
\* scaled down
StomachCapacity == 2
SocialStomachCapacity == 2
MaxFood == 3
MaxChildren == 2

\* the amount a COLLECT_FOOD without a usable amount asks for
DefaultCollect == 10

AlphaDen == 8
EvapDen == 2
AlphaNums == {0, 1, 2, 3}
EvapNums == {0, 1, 2}

Agents == 1..NumAgents
NoAnt == 0
Cells == (0..(W - 1)) \X (0..(H - 1))
Walls == {<<W - 1, H - 1>>}
PTypes == {"food", "hunger"}

Max(a, b) == IF a >= b THEN a ELSE b
Min(a, b) == IF a <= b THEN a ELSE b
Abs(a) == IF a < 0 THEN -a ELSE a

\* ---------------------------------------------------------------- intents
\* An optional coordinate pair of a payload: absent, a pair of integers, or
\* a value int() cannot convert.
NoneXY == [k |-> "none", x |-> 0, y |-> 0]
BadXY == [k |-> "bad", x |-> 0, y |-> 0]
XY(x, y) == [k |-> "xy", x |-> x, y |-> y]
IntV(n) == [k |-> "int", v |-> n]
BadV == [k |-> "bad", v |-> 0]
NoneV == [k |-> "none", v |-> 0]

MoveIntent(target, delta) ==
    [type |-> "MOVE", target |-> target, delta |-> delta,
     ptype |-> "", strength |-> IntV(0), position |-> NoneXY,
     target_id |-> NoneV, amount |-> NoneV]

DepositPheromoneIntent(ptype, strength, position) ==
    [type |-> "PHEROMONE", target |-> NoneXY, delta |-> NoneXY,
     ptype |-> ptype, strength |-> strength, position |-> position,
     target_id |-> NoneV, amount |-> NoneV]

FeedIntent(target_id, amount) ==
    [type |-> "FEED", target |-> NoneXY, delta |-> NoneXY,
     ptype |-> "", strength |-> IntV(0), position |-> NoneXY,
     target_id |-> target_id, amount |-> amount]

\* a COLLECT_FOOD intent; position is the payload's food_position or position
CollectFoodIntent(position, amount) ==
    [type |-> "COLLECT_FOOD", target |-> NoneXY, delta |-> NoneXY,
     ptype |-> "", strength |-> IntV(0), position |-> position,
     target_id |-> NoneV, amount |-> amount]

CustomIntent(name) ==
    [type |-> name, target |-> NoneXY, delta |-> NoneXY,
     ptype |-> "", strength |-> IntV(0), position |-> NoneXY,
     target_id |-> NoneV, amount |-> NoneV]

\* A batch element that is neither an Intent nor a dict.
NotAnIntent == CustomIntent("NOT_AN_INTENT")

VARIABLES
    cycle_count,      \* env.cycle_count, the global tick
    pc,               \* [phase, agent]: position of the tick loop
    blackboard,       \* per agent: the blackboard keys the core reads and writes
    grid_ant,         \* Cell.ant of every cell (NoAnt = None)
    cell_pheromones,  \* Cell.pheromones of every cell, per type
    front,            \* PheromoneField._front (numerators over ScaleAt(nswaps))
    deposits,         \* PheromoneField._deposits
    nswaps,           \* completed update_and_swap calls of the run
    alpha_num,        \* PheromoneField.alpha * AlphaDen
    evap_num,         \* PheromoneField.evaporation * EvapDen
    ctx_intents,      \* TickContext.intents of the agent being ticked
    bt_result,        \* status returned by tree_root.tick(ctx)
    exec_summary,     \* what the last apply_intents did
    swap_calls,       \* update_and_swap calls made in the current global tick
    spatial_index,    \* SensorsRunner._spatial_cache entry of the environment
    current_stomach,  \* the attribute current_stomach of every agent
    cell_food,        \* Cell.food of every cell
    tree_spec,        \* the tree definition handed to the builder
    worker_root,      \* BehaviorEngine.worker_root, the built tree
    bt_trace,         \* nodes and triggers evaluated by the last root.tick
    board,            \* one Blackboard: _data, _previous_data, _changes
    last_call,        \* the last Blackboard or runner call and what it returned
    sensor_env,       \* what the core sensors find around the board's worker
    pm_plugins,       \* the plugins registered with pluggy, in registration order
    registry,         \* PluginManager._steps, _triggers, _sensors
    discovery,        \* how the last discover_and_register call ended
    runs,             \* RunManager._runs: the state of every started run
    response,         \* the last HTTP response of the backend
    run_positions,    \* per run: the position of every agent
    run_step,         \* per run: the agent-ticks done so far
    queens,           \* run_demo: the list queens
    all_agents,       \* run_demo: the list all_agents
    ant_registry,     \* Environment.ant_registry (its keys)
    queen_bb,         \* the lifecycle keys of every queen's blackboard
    brood_registry,   \* Environment.brood_registry: id -> lifecycle keys
    tick_log          \* what the current tick has done to which agent

vars == <<cycle_count, pc, blackboard, grid_ant, cell_pheromones, front,
          deposits, nswaps, alpha_num, evap_num, ctx_intents, bt_result,
          exec_summary, swap_calls, spatial_index, current_stomach, cell_food,
          tree_spec, worker_root, bt_trace, board, last_call, sensor_env,
          pm_plugins, registry, discovery, runs, response, run_positions,
          run_step, queens, all_agents, ant_registry, queen_bb, brood_registry,
          tick_log>>

\* the variables of the tree builder and of the stand-alone blackboard
treeVars == <<tree_spec, worker_root, bt_trace>>
boardVars == <<board, last_call, sensor_env>>

\* the variables of the plugin registry, of the backend, of the pair of runs
\* and of the queen and brood lifecycle
registryVars == <<pm_plugins, registry, discovery>>
backendVars == <<runs, response>>
runsVars == <<run_positions, run_step>>
lifeVars == <<queens, all_agents, ant_registry, queen_bb, brood_registry, tick_log>>
sideVars == <<registryVars, backendVars, runsVars, lifeVars>>

\* --------------------------------------------------------------- executor
\* variant: the upper limits are taken inclusively
WithinBoundsInclusive(x, y) == 0 <= x /\ x <= W /\ 0 <= y /\ y <= H

\* _within_bounds against _env_bounds(env) = (W, H)
WithinBounds(x, y) == 0 <= x /\ x < W /\ 0 <= y /\ y < H

\* variant: only walls block, occupancy is not looked at
CellFreeWallsOnly(grid, x, y) == <<x, y>> \notin Walls

\* _cell_free: a wall cell or a cell whose ant is not None is not free; a
\* failing grid lookup is swallowed and reads as free
CellFree(grid, x, y) ==
    IF <<x, y>> \notin Cells THEN TRUE
    ELSE /\ <<x, y>> \notin Walls
         /\ grid[<<x, y>>] = NoAnt

\* variant: the old cell keeps its occupant
MoveOccupyKeepsOld(grid, old, new, a) ==
    [c \in Cells |-> IF c = new THEN a ELSE grid[c]]

\* _move_occupy: clear the old cell, install the worker in the new one
MoveOccupy(grid, old, new, a) ==
    [c \in Cells |-> IF c = new THEN a ELSE IF c = old THEN NoAnt ELSE grid[c]]

\* IntentExecutor._apply_move -> [ok, pos, reason, grid]
MoveResult(ok, pos, reason, grid) ==
    [ok |-> ok, pos |-> pos, reason |-> reason, grid |-> grid]

ApplyMove(a, grid, cur, it) ==
    IF it.target.k = "none" /\ it.delta.k = "none"
    THEN MoveResult(FALSE, cur, "no_target_or_delta", grid)
    ELSE IF it.target.k # "none" /\ it.delta.k # "none"
    THEN MoveResult(FALSE, cur, "ambiguous_move", grid)
    ELSE IF it.target.k = "bad"
    THEN MoveResult(FALSE, cur, "invalid_target", grid)
    ELSE IF it.delta.k = "bad"
    THEN MoveResult(FALSE, cur, "invalid_delta", grid)
    ELSE LET nx == IF it.target.k = "xy" THEN it.target.x ELSE cur[1] + it.delta.x
             ny == IF it.target.k = "xy" THEN it.target.y ELSE cur[2] + it.delta.y
         IN  IF ~WithinBounds(nx, ny)
             THEN MoveResult(FALSE, cur, "out_of_bounds", grid)
             ELSE IF Max(Abs(nx - cur[1]), Abs(ny - cur[2])) > 1
             THEN MoveResult(FALSE, cur, "too_far", grid)
             ELSE IF ~CellFree(grid, nx, ny)
             THEN MoveResult(FALSE, cur, "blocked", grid)
             ELSE MoveResult(TRUE, <<nx, ny>>, "",
                             MoveOccupy(grid, cur, <<nx, ny>>, a))

\* Python list indexing env.grid[ty][tx]: a negative index counts from the
\* end, an index outside [-n, n) raises IndexError.
IndexOk(i, n) == -n <= i /\ i < n
PyIndex(i, n) == IF i < 0 THEN i + n ELSE i

\* PheromoneField.deposit: staged unless the amount is non-positive or the
\* coordinates are outside the field
Deposit(dep, ptype, x, y, amount) ==
    IF amount <= 0 THEN dep
    ELSE IF ~(0 <= x /\ x < W /\ 0 <= y /\ y < H) THEN dep
    ELSE [dep EXCEPT ![ptype][<<x, y>>] = @ + amount]

\* Cell.add_pheromone: the cell-local view is written at once, the field
\* deposit is staged
AddPheromoneView(cph, c, ptype, strength) ==
    [cph EXCEPT ![ptype][c] = @ + Max(0, strength)]

AddPheromoneField(dep, c, ptype, strength) ==
    Deposit(dep, ptype, c[1], c[2], Max(0, strength))

\* One entry of the executed / rejected lists and of the event log.
\* n is the amount a FEED transferred or a COLLECT_FOOD collected.
Entry(it, status, reason, pos) ==
    [intent |-> it, status |-> status, reason |-> reason, pos |-> pos, n |-> 0]

\* The state apply_intents threads through its loop over the batch.
ExecState(a, bb, grid, dep, cph, cur, food) ==
    [pos |-> bb[a].position, start_pos |-> bb[a].position,
     moved |-> bb[a].has_moved,
     grid |-> grid, dep |-> dep, cph |-> cph,
     social |-> bb[a].social_stomach, cur |-> cur, food |-> food,
     executed |-> <<>>, rejected |-> <<>>, events |-> <<>>,
     raised |-> FALSE]

Executed(s, it, pos) ==
    [s EXCEPT !.executed = Append(@, Entry(it, "executed", "", pos)),
              !.events = Append(@, Entry(it, "executed", "", pos))]

\* an executed entry whose details carry the amount that was moved
ExecutedAmount(s, it, n) ==
    [s EXCEPT !.executed = Append(@, [Entry(it, "executed", "", NoneXY) EXCEPT !.n = n]),
              !.events = Append(@, [Entry(it, "executed", "", NoneXY) EXCEPT !.n = n])]

Rejected(s, it, reason) ==
    [s EXCEPT !.rejected = Append(@, Entry(it, "rejected", reason, NoneXY)),
              !.events = Append(@, Entry(it, "rejected", reason, NoneXY))]

\* variant: a deposit without position always uses the cell the batch started on
ApplyPheromoneAtStart(s, it) ==
    IF it.strength.k = "bad" THEN [s EXCEPT !.raised = TRUE]
    ELSE IF it.position.k = "bad" THEN Rejected(s, it, "invalid_position")
    ELSE LET tx == IF it.position.k = "none" THEN s.start_pos[1] ELSE it.position.x
             ty == IF it.position.k = "none" THEN s.start_pos[2] ELSE it.position.y
         IN  IF ~(IndexOk(ty, H) /\ IndexOk(tx, W))
             THEN Rejected(s, it, "env_cell_unavailable")
             ELSE LET c == <<PyIndex(tx, W), PyIndex(ty, H)>>
                      s2 == [s EXCEPT
                               !.cph = AddPheromoneView(@, c, it.ptype, it.strength.v),
                               !.dep = AddPheromoneField(@, c, it.ptype, it.strength.v)]
                  IN  Executed(s2, it, XY(tx, ty))

\* IntentExecutor._apply_pheromone, with the int(strength) conversion that
\* precedes its try block
ApplyPheromone(s, it) ==
    IF it.strength.k = "bad" THEN [s EXCEPT !.raised = TRUE]
    ELSE IF it.position.k = "bad" THEN Rejected(s, it, "invalid_position")
    ELSE LET tx == IF it.position.k = "none" THEN s.pos[1] ELSE it.position.x
             ty == IF it.position.k = "none" THEN s.pos[2] ELSE it.position.y
         IN  IF ~(IndexOk(ty, H) /\ IndexOk(tx, W))
             THEN Rejected(s, it, "env_cell_unavailable")
             ELSE LET c == <<PyIndex(tx, W), PyIndex(ty, H)>>
                      s2 == [s EXCEPT
                               !.cph = AddPheromoneView(@, c, it.ptype, it.strength.v),
                               !.dep = AddPheromoneField(@, c, it.ptype, it.strength.v)]
                  IN  Executed(s2, it, XY(tx, ty))

\* Cell.food: nothing, or a food object with an amount
NoFood == [has |-> FALSE, amount |-> 0]
Food(n) == [has |-> TRUE, amount |-> n]

\* variant: the free capacity of the target does not limit a feeding
FeedTransferIgnoringCapacity(social, free, amount) ==
    IF amount.k = "none" THEN social
    ELSE Min(social, Max(0, amount.v))

\* _apply_feed, "Compute transferable amount"
FeedTransfer(social, free, amount) ==
    IF amount.k = "none" THEN Min(social, free)
    ELSE Min(Min(social, free), Max(0, amount.v))

\* IntentExecutor._apply_feed: the donor is the worker, the target is looked
\* up in the registry; int(amount) is converted outside any try block
ApplyFeed(a, s, it) ==
    IF it.target_id.k = "none" THEN Rejected(s, it, "missing_target")
    ELSE IF it.target_id.k = "bad" \/ it.target_id.v \notin Agents
    THEN Rejected(s, it, "target_not_found")
    ELSE IF s.social <= 0 THEN Rejected(s, it, "no_social_food")
    ELSE LET t == it.target_id.v
             free == Max(0, StomachCapacity - s.cur[t])
         IN  IF free <= 0 THEN Rejected(s, it, "target_full")
             ELSE IF it.amount.k = "bad" THEN [s EXCEPT !.raised = TRUE]
             ELSE LET transfer == FeedTransfer(s.social, free, it.amount)
                  IN  ExecutedAmount([s EXCEPT !.cur[t] = @ + transfer,
                                               !.social = @ - transfer],
                                     it, transfer)

\* variant: the free capacity of the social stomach does not limit a collection
CollectAmountIgnoringCapacity(requested, free_capacity, available) ==
    Min(requested, available)

\* _apply_collect_food, "Compute collection amount"
CollectAmount(requested, free_capacity, available) ==
    Min(Min(requested, free_capacity), available)

\* IntentExecutor._apply_collect_food: the source is the given position or
\* the worker's current one; an amount int() cannot convert is the default
ApplyCollectFood(a, s, it) ==
    IF it.position.k = "bad" THEN Rejected(s, it, "invalid_source_position")
    ELSE LET sx == IF it.position.k = "none" THEN s.pos[1] ELSE it.position.x
             sy == IF it.position.k = "none" THEN s.pos[2] ELSE it.position.y
             requested == IF it.amount.k = "int" THEN it.amount.v ELSE DefaultCollect
             free_capacity == Max(0, SocialStomachCapacity - s.social)
         IN  IF requested <= 0 THEN Rejected(s, it, "non_positive_amount")
             ELSE IF free_capacity <= 0 THEN Rejected(s, it, "no_capacity")
             ELSE IF ~(IndexOk(sy, H) /\ IndexOk(sx, W))
             THEN Rejected(s, it, "env_cell_unavailable")
             ELSE LET c == <<PyIndex(sx, W), PyIndex(sy, H)>>
                      available == IF s.food[c].has THEN s.food[c].amount ELSE 0
                      collect_amt == CollectAmount(requested, free_capacity, available)
                  IN  IF available <= 0 THEN Rejected(s, it, "no_food")
                      ELSE IF collect_amt <= 0 THEN Rejected(s, it, "nothing_to_collect")
                      ELSE ExecutedAmount(
                              [s EXCEPT !.food[c] = IF available - collect_amt <= 0
                                                    THEN NoFood
                                                    ELSE Food(available - collect_amt),
                                        !.social = @ + collect_amt],
                              it, collect_amt)

\* apply_intents, the branches after MOVE: FEED, PHEROMONE, COLLECT_FOOD, and
\* every other type as an executed no-op
ApplyOther(a, s, it) ==
    IF it.type = "FEED" THEN ApplyFeed(a, s, it)
    ELSE IF it.type = "PHEROMONE" THEN ApplyPheromone(s, it)
    ELSE IF it.type = "COLLECT_FOOD" THEN ApplyCollectFood(a, s, it)
    ELSE Executed(s, it, NoneXY)

\* variant: the has_moved guard in front of _apply_move is missing
ApplyOneAnyMove(a, s, it) ==
    IF it.type = "MOVE"
    THEN LET r == ApplyMove(a, s.grid, s.pos, it)
         IN  IF r.ok
             THEN Executed([s EXCEPT !.pos = r.pos, !.moved = TRUE, !.grid = r.grid],
                           it, XY(r.pos[1], r.pos[2]))
             ELSE Rejected(s, it, r.reason)
    ELSE ApplyOther(a, s, it)

\* variant: a Move marks the agent as moved before it is validated
ApplyOneMarksMoved(a, s, it) ==
    IF it.type = "MOVE"
    THEN IF s.moved THEN Rejected(s, it, "move_already_done")
         ELSE LET r == ApplyMove(a, s.grid, s.pos, it)
              IN  IF r.ok
                  THEN Executed([s EXCEPT !.pos = r.pos, !.moved = TRUE,
                                          !.grid = r.grid],
                                it, XY(r.pos[1], r.pos[2]))
                  ELSE Rejected([s EXCEPT !.moved = TRUE], it, r.reason)
    ELSE ApplyOther(a, s, it)

\* The body of the loop of apply_intents for one normalised intent.
ApplyOne(a, s, it) ==
    IF it.type = "MOVE"
    THEN IF s.moved THEN Rejected(s, it, "move_already_done")
         ELSE LET r == ApplyMove(a, s.grid, s.pos, it)
              IN  IF r.ok
                  THEN Executed([s EXCEPT !.pos = r.pos, !.moved = TRUE,
                                          !.grid = r.grid],
                                it, XY(r.pos[1], r.pos[2]))
                  ELSE Rejected(s, it, r.reason)
    ELSE ApplyOther(a, s, it)

\* Normalisation: what is neither an Intent nor a dict is rejected up front.
RejectInvalid(s, intents) ==
    LET bad == SelectSeq(intents, LAMBDA it : it = NotAnIntent)
        F[i \in 0..Len(bad)] ==
            IF i = 0 THEN s ELSE Rejected(F[i - 1], bad[i], "invalid_type")
    IN  F[Len(bad)]

Normalise(intents) == SelectSeq(intents, LAMBDA it : it # NotAnIntent)

\* IntentExecutor.apply_intents: the batch in order; an exception ends it.
ApplyIntents(a, bb, grid, dep, cph, cur, food, intents) ==
    LET norm == Normalise(intents)
        s0 == RejectInvalid(ExecState(a, bb, grid, dep, cph, cur, food), intents)
        F[i \in 0..Len(norm)] ==
            IF i = 0 THEN s0
            ELSE IF F[i - 1].raised THEN F[i - 1]
            ELSE ApplyOne(a, F[i - 1], norm[i])
    IN  F[Len(norm)]

\* ------------------------------------------------------- pheromone field
ScaleStep == AlphaDen * EvapDen
ScaleAt(n) == ScaleStep ^ n

ZeroField == [t \in PTypes |-> [c \in Cells |-> 0]]

\* _validate_params: 0 <= evaporation < 1 and 0 <= alpha <= 0.25
ValidParams(an, en) ==
    /\ 0 <= en /\ en < EvapDen
    /\ 0 <= an /\ 4 * an <= AlphaDen

\* variant: nothing flows back from beyond the upper edge
UpAbsorbing(f, c) == IF c[2] + 1 <= H - 1 THEN f[<<c[1], c[2] + 1>>] ELSE 0

\* The four shifted copies of front with the wrapped edge overwritten by the
\* edge value (Neumann boundary).
Up(f, c) == f[<<c[1], Min(c[2] + 1, H - 1)>>]
Down(f, c) == f[<<c[1], Max(c[2] - 1, 0)>>]
Left(f, c) == f[<<Min(c[1] + 1, W - 1), c[2]>>]
Right(f, c) == f[<<Max(c[1] - 1, 0), c[2]>>]

\* _diffuse_evaporate_into for one cell; the result is over the denominator
\* of f times ScaleStep
DiffuseEvaporate(f, an, en, c) ==
    ((AlphaDen - 4 * an) * f[c]
        + an * (Up(f, c) + Down(f, c) + Left(f, c) + Right(f, c)))
      * (EvapDen - en)

\* np.maximum(b, 0.0, out=b)
Clamp(v) == Max(v, 0)

\* variant: the deposits are added before the evaporation is applied
NewFrontDepositFirst(f, d, an, en, n) ==
    [c \in Cells |->
        Clamp(DiffuseEvaporate(f, an, en, c)
                + d[c] * ScaleAt(n) * AlphaDen * (EvapDen - en))]

\* variant: the deposits are taken off instead of added and nothing is clamped
NewFrontUnclamped(f, d, an, en, n) ==
    [c \in Cells |-> DiffuseEvaporate(f, an, en, c) - d[c] * ScaleAt(n + 1)]

\* update_and_swap for one type: diffuse and evaporate front into back, add
\* the staged deposits, clamp; the result becomes the new front
NewFront(f, d, an, en, n) ==
    [c \in Cells |->
        Clamp(DiffuseEvaporate(f, an, en, c) + d[c] * ScaleAt(n + 1))]

UpdateAndSwap(fr, dep, an, en, n) ==
    [t \in PTypes |-> NewFront(fr[t], dep[t], an, en, n)]

\* ---------------------------------------------------------------- sensors
MaxDist == 5
SensorInterval == 2

\* SensorsRunner._should_run_sensor for a throttled sensor
ShouldRunSensor(tick) == tick % SensorInterval = 0

\* bb_pheromone_detection_sensor: a cell at Manhattan distance 1..MaxDist
\* whose local pheromone view holds a positive level
PheromoneDetection(cph, pos) ==
    \E c \in Cells :
        /\ Abs(c[1] - pos[1]) + Abs(c[2] - pos[2]) \in 1..MaxDist
        /\ \E t \in PTypes : cph[t][c] > 0

\* SensorsRunner._spatial_cache before the first sensor run
NoIndex == [tick |-> 0, positions |-> <<>>]

\* SensorsRunner._ensure_spatial_index: the cached index is reused while
\* env.cycle_count is the tick it was built in, else rebuilt from the ants'
\* positions and exposed on the environment
EnsureSpatialIndex(idx, bb, tick) ==
    IF idx.tick = tick THEN idx
    ELSE [tick |-> tick, positions |-> [a \in Agents |-> bb[a].position]]

\* SensorsRunner.update_worker: the sensor outputs merged into the blackboard
UpdateWorker(bb, a, cph, tick) ==
    IF ShouldRunSensor(tick)
    THEN [bb EXCEPT ![a].pheromone_detected =
              IF PheromoneDetection(cph, bb[a].position) THEN "True" ELSE "False"]
    ELSE bb

\* --------------------------------------------------------- behaviour tree
\* What a step function returns: a dict with a status and optional intents,
\* or a bare list of intents.
DictResult(status, intents) ==
    [kind |-> "dict", status |-> status, intents |-> intents]
ListResult(intents) ==
    [kind |-> "list", status |-> "", intents |-> intents]

\* StepLeaf._map_status_and_intents
MapStatus(r) ==
    IF r.kind = "dict"
    THEN IF r.status \in {"SUCCESS", "FAILURE", "RUNNING"} THEN r.status
         ELSE IF r.status \in {"IN_PROGRESS", "RUN"} THEN "RUNNING"
         ELSE "FAILURE"
    ELSE IF r.kind = "list" THEN "RUNNING"
    ELSE "FAILURE"

MapIntents(r) == r.intents

\* a step function that raises instead of returning
RaiseResult == [kind |-> "raise", status |-> "", intents |-> <<>>]

\* A node: for a step leaf name is its step_name, for a condition triggers
\* and logic are its gate.
Node(type, name, children, result) ==
    [type |-> type, name |-> name, children |-> children, result |-> result,
     triggers |-> <<>>, logic |-> "AND", params |-> FALSE]

NoResult == DictResult("", <<>>)
StepNode(step_name, result) == Node("step", step_name, <<>>, result)
ConditionNode(trigger) ==
    [Node("condition", trigger, <<>>, NoResult) EXCEPT !.triggers = <<trigger>>]
\* params: the node was given trigger_params for its triggers
GateNode(triggers, logic, params) ==
    [Node("condition", "", <<>>, NoResult) EXCEPT !.triggers = triggers,
                                                 !.logic = logic,
                                                 !.params = params]
SequenceNode(children) == Node("sequence", "", children, NoResult)
SelectorNode(children) == Node("selector", "", children, NoResult)

\* The registered trigger functions by what they do when called: return a
\* value, raise, or raise TypeError (on every call, or only when called with
\* keyword arguments).
TriggerNames ==
    {"always_true", "always_false", "raises_value_error", "raises_type_error",
     "rejects_kwargs"}

CallOutcome(value, raised) == [value |-> value, raised |-> raised]

\* func(blackboard, **kwargs) if kwargs else func(blackboard)
CallTrigger(name, kwargs) ==
    IF name = "always_true" THEN CallOutcome(TRUE, "")
    ELSE IF name = "always_false" THEN CallOutcome(FALSE, "")
    ELSE IF name = "raises_value_error" THEN CallOutcome(FALSE, "ValueError")
    ELSE IF name = "raises_type_error" THEN CallOutcome(FALSE, "TypeError")
    ELSE IF kwargs THEN CallOutcome(FALSE, "TypeError")
    ELSE CallOutcome(TRUE, "")

\* TriggersEvaluator.evaluate: False for an unregistered name and for an
\* exception other than TypeError; after a TypeError the function is called
\* again without keyword arguments, outside any try block
Evaluate(name, kwargs) ==
    IF name \notin TriggerNames THEN CallOutcome(FALSE, "")
    ELSE LET r == CallTrigger(name, kwargs)
         IN  IF r.raised = "" THEN r
             ELSE IF r.raised = "TypeError" THEN CallTrigger(name, FALSE)
             ELSE CallOutcome(FALSE, "")

\* Condition.tick, one trigger: an exception of evaluate counts as False
EvaluateTrigger(name, kwargs) ==
    LET r == Evaluate(name, kwargs) IN r.raised = "" /\ r.value

\* StepLeaf._resolve: the plugin manager knows the step name
Resolve(step_name) == step_name # "missing"

\* The registered steps modelled by name; every other step is represented
\* by the value it returns.
StepReturn(node) ==
    IF node.name \in {"signal_hunger", "idle", "example_wait"}
    THEN DictResult("SUCCESS", <<>>)
    ELSE node.result

\* One line of the transition log of a tick: the node at node_path left with
\* status, or evaluate returned for one of its triggers.
TraceEntry(path, type, name, status, raised) ==
    [path |-> path, type |-> type, name |-> name, status |-> status,
     raised |-> raised]

\* TickContext at the start of root.tick
NewContext(b) == [intents |-> <<>>, b |-> b, node_path |-> <<>>, trace |-> <<>>]

Exit(node, r, ctx0) ==
    [r EXCEPT !.ctx.trace =
        Append(@, TraceEntry(ctx0.node_path, node.type, node.name, r.status, ""))]

\* Condition.tick: every trigger is evaluated, then AND / OR over the results
\* (an empty gate passes)
GateTrace(node, ctx) ==
    [i \in 1..Len(node.triggers) |->
        LET r == Evaluate(node.triggers[i], node.params)
        IN  TraceEntry(ctx.node_path, "trigger", node.triggers[i],
                       IF r.raised # "" THEN "RAISED"
                       ELSE IF r.value THEN "True" ELSE "False",
                       r.raised)]

GatePasses(node) ==
    IF node.triggers = <<>> THEN TRUE
    ELSE IF node.logic = "OR"
    THEN \E i \in 1..Len(node.triggers) :
            EvaluateTrigger(node.triggers[i], node.params)
    ELSE \A i \in 1..Len(node.triggers) :
            EvaluateTrigger(node.triggers[i], node.params)

\* variant: an error of a step leaves the leaf as an exception
OnStepErrorPropagates(cause) == "RAISED"

\* StepLeaf.tick: an unresolved name and an exception of the step function
\* both end the leaf with FAILURE
OnStepError(cause) == "FAILURE"

\* variant: a selector goes on after a success, as a sequence does
ContinueOnSuccess(type) == "SUCCESS"

\* the child status after which a composite goes on to its next child
ContinueOn(type) == IF type = "sequence" THEN "SUCCESS" ELSE "FAILURE"

\* signal_hunger_step and idle_step write the blackboard of their agent
SignalHungerWrite(b) == [b EXCEPT !.signaling_hunger = "True"]
IdleWrite(b) == [b EXCEPT !.signaling_hunger = "False"]

StepWrite(node, b) ==
    IF node.name = "signal_hunger" THEN SignalHungerWrite(b)
    ELSE IF node.name = "idle" THEN IdleWrite(b)
    ELSE b

\* ctx: the collected intents, the agent's blackboard, the path of the node
\* being ticked and the transition log
RECURSIVE TickNode(_, _)
RECURSIVE TickChildren(_, _, _, _)
RECURSIVE TickChildrenAll(_, _, _, _)

\* variant: every child is ticked; the first status that ends the composite
\* is returned afterwards
TickChildrenAll(children, i, ctx, continue_on) ==
    IF i > Len(children) THEN [status |-> continue_on, ctx |-> ctx]
    ELSE LET r == TickNode(children[i],
                           [ctx EXCEPT !.node_path = Append(@, i)])
             popped == [r EXCEPT !.ctx.node_path = ctx.node_path]
             rest == TickChildrenAll(children, i + 1, popped.ctx, continue_on)
         IN  IF r.status # continue_on THEN [rest EXCEPT !.status = r.status]
             ELSE rest

\* Sequence.tick (continue_on = "SUCCESS") and Selector.tick
\* (continue_on = "FAILURE"): the first other status of a child is returned,
\* the children after it are not ticked
TickChildren(children, i, ctx, continue_on) ==
    IF i > Len(children) THEN [status |-> continue_on, ctx |-> ctx]
    ELSE LET r == TickNode(children[i],
                           [ctx EXCEPT !.node_path = Append(@, i)])
             popped == [r EXCEPT !.ctx.node_path = ctx.node_path]
         IN  IF r.status # continue_on THEN popped
             ELSE TickChildren(children, i + 1, popped.ctx, continue_on)

TickNode(node, ctx) ==
    IF node.type \in {"sequence", "selector"}
    THEN Exit(node, TickChildren(node.children, 1, ctx, ContinueOn(node.type)), ctx)
    ELSE IF node.type = "condition"
    THEN Exit(node,
              [status |-> IF GatePasses(node) THEN "SUCCESS" ELSE "FAILURE",
               ctx |-> [ctx EXCEPT !.trace = @ \o GateTrace(node, ctx)]],
              ctx)
    ELSE IF ~Resolve(node.name)
    THEN [status |-> OnStepError("missing"),
          ctx |-> [ctx EXCEPT !.trace =
              Append(@, TraceEntry(ctx.node_path, "step", node.name,
                                   OnStepError("missing"), "missing"))]]
    ELSE LET r == StepReturn(node)
         IN  IF r.kind = "raise"
             THEN [status |-> OnStepError("Exception"),
                   ctx |-> [ctx EXCEPT !.trace =
                       Append(@, TraceEntry(ctx.node_path, "step", node.name,
                                            OnStepError("Exception"), "Exception"))]]
             ELSE Exit(node,
                       [status |-> MapStatus(r),
                        ctx |-> [ctx EXCEPT !.intents = @ \o MapIntents(r),
                                            !.b = StepWrite(node, ctx.b)]],
                       ctx)

\* ------------------------------------------------------------ step inputs
\* Intents a step may return. Positions are absolute or relative to the grid
\* bounds so that every rejection branch of the executor is reachable.
MoveIntents ==
    { MoveIntent(NoneXY, XY(1, 0)), MoveIntent(NoneXY, XY(0, 0)),
      MoveIntent(XY(W, 0), NoneXY), MoveIntent(XY(W, 0), XY(1, 0)),
      MoveIntent(XY(W - 1, H - 1), NoneXY),
      MoveIntent(BadXY, NoneXY), MoveIntent(NoneXY, BadXY) }

PheromoneIntents ==
    { DepositPheromoneIntent("food", IntV(1), NoneXY),
      DepositPheromoneIntent("hunger", BadV, NoneXY) }

IntentUniverse == MoveIntents \cup PheromoneIntents \cup {NotAnIntent}

RECURSIVE SeqsUpTo(_, _)
SeqsUpTo(S, n) ==
    IF n = 0 THEN {<<>>}
    ELSE LET shorter == SeqsUpTo(S, n - 1)
         IN  shorter \cup {Append(q, e) : q \in shorter, e \in S}

Batches == SeqsUpTo(IntentUniverse, MaxBatch)
ShortBatches == {<<>>, <<MoveIntent(NoneXY, XY(1, 0))>>,
                 <<DepositPheromoneIntent("food", IntV(1), NoneXY)>>}

StepResults ==
    {DictResult(st, b) : st \in {"SUCCESS", "FAILURE", "RUNNING"}, b \in Batches}
        \cup {ListResult(b) : b \in Batches}

ShortLeaves ==
    {StepNode("plugin", DictResult(st, b)) :
        st \in {"SUCCESS", "FAILURE", "IN_PROGRESS", "DONE"}, b \in ShortBatches}
        \cup {StepNode(n, NoResult) : n \in {"signal_hunger", "idle", "example_wait", "missing"}}

Trees ==
    {StepNode("plugin", r) : r \in StepResults}
        \cup ShortLeaves
        \cup {SequenceNode(<<ConditionNode(t), l>>) :
                t \in {"always_true", "missing"}, l \in ShortLeaves}
        \cup {SequenceNode(<<l1, l2>>) : l1 \in ShortLeaves, l2 \in ShortLeaves}
        \cup {SelectorNode(<<l1, l2>>) : l1 \in ShortLeaves, l2 \in ShortLeaves}

\* ------------------------------------------------------------ tick engine
\* Values of the builder's and the stand-alone blackboard's variables in a
\* run that does not use them.
NoTree == Node("none", "", <<>>, NoResult)
NoSpec == [via |-> "none", root |-> NoTree]
NoBoard == [data |-> <<>>, previous_data |-> <<>>, changes |-> <<>>]
NoCall == [op |-> "", prior |-> "", returned |-> <<>>, committed |-> FALSE]
NoSensorEnv == [in_nest |-> FALSE, hungry |-> FALSE]

TreeUnused == tree_spec = NoSpec /\ worker_root = NoTree /\ bt_trace = <<>>
BoardUnused == board = NoBoard /\ last_call = NoCall /\ sensor_env = NoSensorEnv

NoRegistry == [steps |-> <<>>, triggers |-> <<>>, sensors |-> <<>>]
NoError == [kind |-> "", name |-> "", existing |-> "", new |-> ""]
NoDiscovery == [state |-> "new", error |-> NoError]
RegistryUnused ==
    pm_plugins = <<>> /\ registry = NoRegistry /\ discovery = NoDiscovery
NoResponse == [op |-> "", run_id |-> "", status_code |-> 0, body |-> <<>>]
BackendUnused == runs = <<>> /\ response = NoResponse
RunsUnused == run_positions = <<>> /\ run_step = <<>>
NoLog == [bt_ticked |-> <<>>, cycled |-> <<>>, hunger |-> <<>>, died |-> {},
          dead_before |-> {}, laid |-> <<>>]
LifeUnused ==
    /\ queens = <<>>
    /\ all_agents = <<>>
    /\ ant_registry = {}
    /\ queen_bb = <<>>
    /\ brood_registry = <<>>
    /\ tick_log = NoLog
SideUnused == RegistryUnused /\ BackendUnused /\ RunsUnused /\ LifeUnused

Phase(p, a) == [phase |-> p, agent |-> a]

\* run_demo places the agents side by side on free cells
InitialPosition(a) == <<a - 1, 0>>

NoSummary ==
    [called |-> FALSE, agent |-> NoAnt, start_pos |-> <<0, 0>>,
     executed |-> <<>>, rejected |-> <<>>, events |-> <<>>, raised |-> FALSE]

Init ==
    /\ cycle_count = 1
    /\ pc = Phase("reset", 1)
    /\ blackboard = [a \in Agents |->
            [position |-> InitialPosition(a), has_moved |-> FALSE,
             intents_executed |-> <<>>, signaling_hunger |-> "unset",
             pheromone_detected |-> "unset", social_stomach |-> 0]]
    /\ grid_ant = [c \in Cells |->
            IF \E a \in Agents : InitialPosition(a) = c
            THEN CHOOSE a \in Agents : InitialPosition(a) = c
            ELSE NoAnt]
    /\ cell_pheromones = ZeroField
    /\ front = ZeroField
    /\ deposits = ZeroField
    /\ nswaps = 0
    /\ alpha_num = 1
    /\ evap_num = 1
    /\ ctx_intents = <<>>
    /\ bt_result = ""
    /\ exec_summary = NoSummary
    /\ swap_calls = 0
    /\ spatial_index = NoIndex
    /\ current_stomach = [a \in Agents |-> 0]
    /\ cell_food = [c \in Cells |-> NoFood]
    /\ TreeUnused
    /\ BoardUnused
    /\ SideUnused

\* variant: the reset leaves the has_moved marker as it is
ResetCycleKeepsMoved(b) == [b EXCEPT !.intents_executed = <<>>]

\* reset_worker_cycle on the blackboard of one agent
ResetCycle(b) == [b EXCEPT !.has_moved = FALSE, !.intents_executed = <<>>]

\* IntentExecutor.reset_worker_cycle at the start of an agent's tick
ResetWorkerCycle ==
    /\ pc.phase = "reset"
    /\ blackboard' = [blackboard EXCEPT ![pc.agent] = ResetCycle(@)]
    /\ pc' = Phase("pre", pc.agent)
    /\ UNCHANGED <<cycle_count, grid_ant, cell_pheromones, front, deposits, nswaps,
                   alpha_num, evap_num, ctx_intents, bt_result, exec_summary, swap_calls,
                   spatial_index, current_stomach, cell_food,
                   treeVars, boardVars, sideVars>>

\* sensors before the tree is evaluated
PreSensors ==
    /\ pc.phase = "pre"
    /\ spatial_index' = EnsureSpatialIndex(spatial_index, blackboard, cycle_count)
    /\ blackboard' = UpdateWorker(blackboard, pc.agent, cell_pheromones, cycle_count)
    /\ pc' = Phase("bt", pc.agent)
    /\ UNCHANGED <<cycle_count, grid_ant, cell_pheromones, front, deposits, nswaps,
                   alpha_num, evap_num, ctx_intents, bt_result, exec_summary, swap_calls,
                   current_stomach, cell_food,
                   treeVars, boardVars, sideVars>>

\* root.tick(ctx): the tree is evaluated, intents are collected in the context
TickTree ==
    /\ pc.phase = "bt"
    /\ \E tree \in Trees :
          LET r == TickNode(tree, NewContext(blackboard[pc.agent]))
          IN  /\ ctx_intents' = r.ctx.intents
              /\ bt_result' = r.status
              /\ blackboard' = [blackboard EXCEPT ![pc.agent] = r.ctx.b]
    /\ pc' = Phase("apply", pc.agent)
    /\ UNCHANGED <<cycle_count, grid_ant, cell_pheromones, front, deposits, nswaps,
                   alpha_num, evap_num, exec_summary, swap_calls, spatial_index,
                   current_stomach, cell_food,
                   treeVars, boardVars, sideVars>>

\* variant: the rejected entries are persisted as well
PersistLogWithRejected(prev, s) ==
    IF s.raised THEN prev ELSE prev \o s.executed \o s.rejected

\* apply_intents, "Persist execution log on BB": the executed entries are
\* appended to intents_executed; an exception before that leaves the key
PersistLog(prev, s) == IF s.raised THEN prev ELSE prev \o s.executed

\* if ctx.intents: executor.apply_intents(worker, environment, ctx.intents)
\* variant: the intents of a tree that returned FAILURE are dropped
IntentsToApplyUnlessFailed(intents, result) ==
    IF result = "FAILURE" THEN <<>> ELSE intents

\* _tick_with_tree: `if ctx.intents:` hands the collected intents to
\* apply_intents; the result of the tree is only logged
IntentsToApply(intents, result) == intents

ApplyIntentsStep ==
    /\ pc.phase = "apply"
    /\ IF IntentsToApply(ctx_intents, bt_result) = <<>>
       THEN /\ pc' = Phase("post", pc.agent)
            /\ UNCHANGED <<blackboard, grid_ant, cell_pheromones, deposits, exec_summary,
                           current_stomach, cell_food>>
       ELSE LET s == ApplyIntents(pc.agent, blackboard, grid_ant, deposits,
                                  cell_pheromones, current_stomach, cell_food,
                                  IntentsToApply(ctx_intents, bt_result))
            IN  /\ grid_ant' = s.grid
                /\ current_stomach' = s.cur
                /\ cell_food' = s.food
                /\ deposits' = s.dep
                /\ cell_pheromones' = s.cph
                /\ blackboard' =
                      [blackboard EXCEPT
                          ![pc.agent].position = s.pos,
                          ![pc.agent].has_moved = s.moved,
                          ![pc.agent].social_stomach = s.social,
                          ![pc.agent].intents_executed = PersistLog(@, s)]
                /\ exec_summary' =
                      [called |-> TRUE, agent |-> pc.agent, start_pos |-> s.start_pos,
                       executed |-> s.executed, rejected |-> s.rejected,
                       events |-> s.events, raised |-> s.raised]
                /\ pc' = IF s.raised THEN Phase("crashed", pc.agent)
                         ELSE Phase("post", pc.agent)
    /\ UNCHANGED <<cycle_count, front, nswaps, alpha_num, evap_num, ctx_intents,
                   bt_result, swap_calls, spatial_index,
                   treeVars, boardVars, sideVars>>

\* variant: the field is advanced after every agent
NextPhaseSwapEachAgent(a) == Phase("swap", NoAnt)

\* variant: every agent after the first is ticked without the reset
NextPhaseSkipReset(a) == IF a < NumAgents THEN Phase("pre", a + 1) ELSE Phase("swap", NoAnt)

\* the agent loop of run_demo: the next agent, or the lifecycle end of the tick
NextPhase(a) == IF a < NumAgents THEN Phase("reset", a + 1) ELSE Phase("swap", NoAnt)

\* sensors after the intents were applied; the tick context is dropped
PostSensors ==
    /\ pc.phase = "post"
    /\ blackboard' = UpdateWorker(blackboard, pc.agent, cell_pheromones, cycle_count)
    /\ pc' = NextPhase(pc.agent)
    /\ ctx_intents' = <<>>
    /\ bt_result' = ""
    /\ exec_summary' = NoSummary
    /\ spatial_index' = EnsureSpatialIndex(spatial_index, blackboard, cycle_count)
    /\ UNCHANGED <<cycle_count, grid_ant, cell_pheromones, front, deposits, nswaps,
                   alpha_num, evap_num, swap_calls,
                   current_stomach, cell_food,
                   treeVars, boardVars, sideVars>>

\* env.pheromones_tick() at the end of the global tick; a parameter error is
\* swallowed and leaves the field as it was
PheromonesTick ==
    /\ pc.phase = "swap"
    /\ swap_calls' = swap_calls + 1
    /\ IF ValidParams(alpha_num, evap_num)
       THEN /\ front' = UpdateAndSwap(front, deposits, alpha_num, evap_num, nswaps)
            /\ deposits' = ZeroField
            /\ nswaps' = nswaps + 1
       ELSE UNCHANGED <<front, deposits, nswaps>>
    /\ IF cycle_count < MaxTick
       THEN /\ cycle_count' = cycle_count + 1
            /\ pc' = Phase("reset", 1)
       ELSE /\ pc' = Phase("done", NoAnt)
            /\ UNCHANGED cycle_count
    /\ UNCHANGED <<blackboard, grid_ant, cell_pheromones, alpha_num, evap_num,
                   ctx_intents, bt_result, exec_summary, spatial_index,
                   current_stomach, cell_food,
                   treeVars, boardVars, sideVars>>

Next ==
    \/ ResetWorkerCycle
    \/ PreSensors
    \/ TickTree
    \/ ApplyIntentsStep
    \/ PostSensors
    \/ PheromonesTick

Spec == Init /\ [][Next]_vars

\* ------------------------------------------- the pheromone field on its own
MaxSwaps == 2
MaxStaged == 2
DepositAmounts == {-1, 0, 1, 2}

RECURSIVE SumOver(_, _)
SumOver(f, S) ==
    IF S = {} THEN 0
    ELSE LET c == CHOOSE c \in S : TRUE IN f[c] + SumOver(f, S \ {c})

\* sum of one layer of the field, and of all layers
LayerSum(f) == SumOver(f, Cells)
FieldSum(fld) == SumOver([t \in PTypes |-> LayerSum(fld[t])], PTypes)

InitField ==
    /\ cycle_count = 1
    /\ pc = Phase("field", NoAnt)
    /\ blackboard = [a \in Agents |->
            [position |-> InitialPosition(a), has_moved |-> FALSE,
             intents_executed |-> <<>>, signaling_hunger |-> "unset",
             pheromone_detected |-> "unset", social_stomach |-> 0]]
    /\ grid_ant = [c \in Cells |-> NoAnt]
    /\ cell_pheromones = ZeroField
    /\ front = ZeroField
    /\ deposits = ZeroField
    /\ nswaps = 0
    /\ alpha_num \in AlphaNums
    /\ evap_num \in EvapNums
    /\ ctx_intents = <<>>
    /\ bt_result = ""
    /\ exec_summary = NoSummary
    /\ swap_calls = 0
    /\ spatial_index = NoIndex
    /\ current_stomach = [a \in Agents |-> 0]
    /\ cell_food = [c \in Cells |-> NoFood]
    /\ TreeUnused
    /\ BoardUnused
    /\ SideUnused

\* PheromoneField.deposit called directly with any coordinates and amount
FieldDeposit ==
    /\ pc.phase = "field"
    /\ swap_calls < MaxSwaps
    /\ LET staged == FieldSum(deposits)
       IN  \E t \in PTypes, x \in (-1)..W, y \in (-1)..H, amount \in DepositAmounts :
              LET d == Deposit(deposits, t, x, y, amount)
              IN  /\ d # deposits => staged + amount <= MaxStaged
                  /\ deposits' = d
    /\ UNCHANGED <<cycle_count, pc, blackboard, grid_ant, cell_pheromones, front,
                   nswaps, alpha_num, evap_num, ctx_intents, bt_result,
                   exec_summary, swap_calls, spatial_index, current_stomach, cell_food,
                   current_stomach, cell_food,
                   treeVars, boardVars, sideVars>>

\* PheromoneField.update_and_swap called directly; invalid parameters raise
\* before any buffer is touched
FieldUpdateAndSwap ==
    /\ pc.phase = "field"
    /\ swap_calls < MaxSwaps
    /\ swap_calls' = swap_calls + 1
    /\ IF ValidParams(alpha_num, evap_num)
       THEN /\ front' = UpdateAndSwap(front, deposits, alpha_num, evap_num, nswaps)
            /\ deposits' = ZeroField
            /\ nswaps' = nswaps + 1
       ELSE UNCHANGED <<front, deposits, nswaps>>
    /\ UNCHANGED <<cycle_count, pc, blackboard, grid_ant, cell_pheromones,
                   alpha_num, evap_num, ctx_intents, bt_result, exec_summary, spatial_index,
                   current_stomach, cell_food,
                   treeVars, boardVars, sideVars>>

NextField ==
    \/ FieldDeposit
    \/ FieldUpdateAndSwap

SpecField == InitField /\ [][NextField]_vars

\* ------------------------------------- the run with rejected field parameters
\* Parameter pairs _validate_params refuses: alpha above 0.25, evaporation 1.
InvalidParams == {<<AlphaDen, 1>>, <<1, EvapDen>>}

\* run_demo with a field that was built with such a pair; the constructor
\* does not validate
InitParams ==
    /\ cycle_count = 1
    /\ pc = Phase("reset", 1)
    /\ blackboard = [a \in Agents |->
            [position |-> InitialPosition(a), has_moved |-> FALSE,
             intents_executed |-> <<>>, signaling_hunger |-> "unset",
             pheromone_detected |-> "unset", social_stomach |-> 0]]
    /\ grid_ant = [c \in Cells |->
            IF \E a \in Agents : InitialPosition(a) = c
            THEN CHOOSE a \in Agents : InitialPosition(a) = c
            ELSE NoAnt]
    /\ cell_pheromones = ZeroField
    /\ front = ZeroField
    /\ deposits = ZeroField
    /\ nswaps = 0
    /\ \E p \in InvalidParams : alpha_num = p[1] /\ evap_num = p[2]
    /\ ctx_intents = <<>>
    /\ bt_result = ""
    /\ exec_summary = NoSummary
    /\ swap_calls = 0
    /\ spatial_index = NoIndex
    /\ current_stomach = [a \in Agents |-> 0]
    /\ cell_food = [c \in Cells |-> NoFood]
    /\ TreeUnused
    /\ BoardUnused
    /\ SideUnused

SpecParams == InitParams /\ [][Next]_vars

\* -------------------------------------------------- the executor on its own
\* Batches for one apply_intents call on a world with food and filled stomachs.
DepositIntents ==
    {DepositPheromoneIntent("food", IntV(1), NoneXY),
     DepositPheromoneIntent("food", IntV(0), NoneXY),
     DepositPheromoneIntent("food", IntV(-1), XY(1, 0)),
     DepositPheromoneIntent("food", IntV(1), XY(W, 0)),
     DepositPheromoneIntent("food", IntV(1), XY(-1, 0))}

FeedIntents ==
    {FeedIntent(IntV(2), NoneV), FeedIntent(IntV(2), IntV(1)),
     FeedIntent(IntV(2), IntV(-1)), FeedIntent(IntV(1), NoneV),
     FeedIntent(IntV(NumAgents + 1), NoneV), FeedIntent(NoneV, IntV(1))}

CollectFoodIntents ==
    {CollectFoodIntent(NoneXY, NoneV), CollectFoodIntent(NoneXY, IntV(1)),
     CollectFoodIntent(NoneXY, IntV(0)), CollectFoodIntent(XY(-1, 0), BadV),
     CollectFoodIntent(BadXY, IntV(1))}

ExecutorUniverse ==
    DepositIntents \cup FeedIntents \cup CollectFoodIntents
        \cup {MoveIntent(NoneXY, XY(0, 1))}

ExecutorBatches == SeqsUpTo(ExecutorUniverse, MaxBatch) \ {<<>>}

\* The first agent of the first tick is about to have its intents applied:
\* sensors have run, the tree has returned a batch; earlier collections and
\* feedings have filled stomachs, food lies under the agent and on the last
\* cell of its row.
InitExecutor ==
    /\ cycle_count = 1
    /\ pc = Phase("apply", 1)
    /\ \E social \in 0..SocialStomachCapacity :
          blackboard = UpdateWorker(
              [a \in Agents |->
                  [position |-> InitialPosition(a), has_moved |-> FALSE,
                   intents_executed |-> <<>>, signaling_hunger |-> "unset",
                   pheromone_detected |-> "unset",
                   social_stomach |-> IF a = 1 THEN social ELSE 0]],
              1, ZeroField, 1)
    /\ grid_ant = [c \in Cells |->
            IF \E a \in Agents : InitialPosition(a) = c
            THEN CHOOSE a \in Agents : InitialPosition(a) = c
            ELSE NoAnt]
    /\ cell_pheromones = ZeroField
    /\ front = ZeroField
    /\ deposits = ZeroField
    /\ nswaps = 0
    /\ alpha_num = 1
    /\ evap_num = 1
    /\ ctx_intents \in ExecutorBatches
    /\ bt_result = "SUCCESS"
    /\ exec_summary = NoSummary
    /\ swap_calls = 0
    /\ spatial_index = EnsureSpatialIndex(NoIndex, blackboard, 1)
    /\ current_stomach \in [Agents -> 0..StomachCapacity]
    /\ \E here \in {NoFood, Food(1), Food(MaxFood)} :
          cell_food = [c \in Cells |->
                IF c = InitialPosition(1) THEN here
                ELSE IF c = <<W - 1, 0>> THEN Food(1)
                ELSE NoFood]
    /\ TreeUnused
    /\ BoardUnused
    /\ SideUnused

NextExecutor == ApplyIntentsStep

SpecExecutor == InitExecutor /\ [][NextExecutor]_vars

\* ----------------------------------------------------- tree construction
\* A node of a tree definition. payload says whether the definition carries
\* the part its type needs: the `step` of a step node, the `condition` /
\* `triggers` of a condition node. result is what the registered step function
\* returns when called.
TreeSpecNode(type, name, payload, step, triggers, children, result) ==
    [type |-> type, name |-> name, payload |-> payload, step |-> step,
     triggers |-> triggers, logic |-> "AND", params |-> FALSE,
     children |-> children, result |-> result]

StepSpec(step, result) == TreeSpecNode("step", "", TRUE, step, <<>>, <<>>, result)
NamedLeafSpec(name, result) ==
    TreeSpecNode("step", name, FALSE, "", <<>>, <<>>, result)
ConditionSpec(triggers, logic, params) ==
    [TreeSpecNode("condition", "", TRUE, "", triggers, <<>>, NoResult)
        EXCEPT !.logic = logic, !.params = params]
BareConditionSpec == TreeSpecNode("condition", "", FALSE, "", <<>>, <<>>, NoResult)
CompositeSpec(type, children) ==
    TreeSpecNode(type, "", FALSE, "", <<>>, children, NoResult)

BuildError == [ok |-> FALSE, tree |-> NoTree]
Built(tree) == [ok |-> TRUE, tree |-> tree]

RECURSIVE Build(_)
\* TreeBuilder.build: the node of a definition, or ValueError
Build(spec) ==
    LET ntype == spec.type
        name == IF spec.name = "" THEN ntype ELSE spec.name
    IN  IF ntype \in {"sequence", "seq", "selector", "sel"}
        THEN LET kids == [i \in 1..Len(spec.children) |-> Build(spec.children[i])]
             IN  IF \E i \in 1..Len(kids) : ~kids[i].ok THEN BuildError
                 ELSE Built(Node(IF ntype \in {"sequence", "seq"}
                                 THEN "sequence" ELSE "selector",
                                 name,
                                 [i \in 1..Len(kids) |-> kids[i].tree],
                                 NoResult))
        ELSE IF ntype \in {"condition", "cond"}
        THEN Built([GateNode(IF spec.payload THEN spec.triggers ELSE <<>>,
                             spec.logic, spec.params)
                        EXCEPT !.name = name])
        ELSE IF ntype \in {"step", "leaf"}
        THEN LET step_name == IF spec.payload /\ spec.step # "" THEN spec.step
                              ELSE spec.name
             IN  IF step_name = "" THEN BuildError
                 ELSE Built(StepNode(step_name, spec.result))
        ELSE BuildError

RECURSIVE ValidateShape(_)
\* BTNode._validate_shape, for a node and the nodes below it
ValidateShape(spec) ==
    /\ \/ spec.type \in {"sequence", "selector"} /\ spec.children # <<>>
       \/ spec.type = "condition" /\ spec.payload
       \/ spec.type = "step" /\ spec.payload
    /\ \A i \in 1..Len(spec.children) : ValidateShape(spec.children[i])

RECURSIVE AllSteps(_)
\* BTNode.all_steps
AllSteps(spec) ==
    (IF spec.type = "step" /\ spec.payload THEN {spec.step} ELSE {})
        \cup UNION {AllSteps(spec.children[i]) : i \in 1..Len(spec.children)}

RECURSIVE AllTriggers(_)
\* BTNode.all_triggers
AllTriggers(spec) ==
    (IF spec.type = "condition" /\ spec.payload
     THEN {spec.triggers[i] : i \in 1..Len(spec.triggers)} ELSE {})
        \cup UNION {AllTriggers(spec.children[i]) : i \in 1..Len(spec.children)}

\* validate_plugin_names: every referenced step and trigger is registered
PluginNamesKnown(spec) ==
    /\ \A n \in AllSteps(spec) : Resolve(n)
    /\ AllTriggers(spec) \subseteq TriggerNames

RECURSIVE ToBuilderSpec(_)
\* BTNode.to_builder_spec: the builder dict of a validated node
ToBuilderSpec(spec) ==
    [spec EXCEPT !.name = IF spec.name = "" THEN spec.type ELSE spec.name,
                 !.children = [i \in 1..Len(spec.children) |->
                                  ToBuilderSpec(spec.children[i])]]

\* load_behavior_tree / build_tree_from_config: validated configuration
LoadBehaviorTree(spec) ==
    IF ~ValidateShape(spec) THEN BuildError
    ELSE IF ~PluginNamesKnown(spec) THEN BuildError
    ELSE Build(ToBuilderSpec(spec))

\* The two ways a tree is constructed: from a configuration file, or by a
\* direct call of the builder on a dict (as build_queen_behavior_tree does).
Construct(ts) ==
    IF ts.via = "config" THEN LoadBehaviorTree(ts.root) ELSE Build(ts.root)

\* Results of the step functions of the tree definitions.
TreeStepResults ==
    { DictResult("SUCCESS", <<>>),
      DictResult("SUCCESS", <<DepositPheromoneIntent("food", IntV(1), NoneXY)>>),
      DictResult("FAILURE", <<>>),
      DictResult("FAILURE", <<DepositPheromoneIntent("hunger", IntV(1), NoneXY)>>),
      DictResult("RUNNING", <<MoveIntent(NoneXY, XY(0, 1)),
                              MoveIntent(NoneXY, XY(0, -1))>>),
      RaiseResult }

LeafSpecs ==
    {StepSpec("plugin", r) : r \in TreeStepResults}
        \cup { StepSpec("missing", NoResult),
               NamedLeafSpec("plugin", DictResult("SUCCESS", <<>>)),
               NamedLeafSpec("", NoResult),
               BareConditionSpec,
               TreeSpecNode("parallel", "", FALSE, "", <<>>, <<>>, NoResult) }
        \cup {ConditionSpec(<<t>>, "AND", FALSE) :
                t \in {"always_true", "always_false", "raises_value_error",
                       "raises_type_error", "unregistered"}}
        \cup { ConditionSpec(<<"rejects_kwargs">>, "AND", TRUE),
               ConditionSpec(<<"always_false", "always_true">>, "OR", FALSE) }

TreeSpecs ==
    LET composites ==
            {CompositeSpec(t, cs) :
                t \in {"sequence", "selector"},
                cs \in SeqsUpTo(LeafSpecs, MaxChildren)}
        nested ==
            {CompositeSpec(t, <<c, l>>) :
                t \in {"sequence", "selector"},
                c \in {CompositeSpec("selector", <<>>),
                       CompositeSpec("sequence",
                            <<StepSpec("plugin", DictResult("SUCCESS", <<>>)),
                              StepSpec("plugin", RaiseResult)>>)},
                l \in {StepSpec("plugin", DictResult("SUCCESS", <<>>))}}
    IN  {[via |-> v, root |-> r] :
            v \in {"config", "builder"},
            r \in LeafSpecs \cup composites \cup nested}

\* The tree of the workers is constructed before the run, then the tick loop
\* runs with it.
InitTree ==
    /\ cycle_count = 1
    /\ pc = Phase("build", NoAnt)
    /\ blackboard = [a \in Agents |->
            [position |-> InitialPosition(a), has_moved |-> FALSE,
             intents_executed |-> <<>>, signaling_hunger |-> "unset",
             pheromone_detected |-> "unset", social_stomach |-> 0]]
    /\ grid_ant = [c \in Cells |->
            IF \E a \in Agents : InitialPosition(a) = c
            THEN CHOOSE a \in Agents : InitialPosition(a) = c
            ELSE NoAnt]
    /\ cell_pheromones = ZeroField
    /\ front = ZeroField
    /\ deposits = ZeroField
    /\ nswaps = 0
    /\ alpha_num = 1
    /\ evap_num = 1
    /\ ctx_intents = <<>>
    /\ bt_result = ""
    /\ exec_summary = NoSummary
    /\ swap_calls = 0
    /\ spatial_index = NoIndex
    /\ current_stomach = [a \in Agents |-> 0]
    /\ cell_food = [c \in Cells |-> NoFood]
    /\ tree_spec \in TreeSpecs
    /\ worker_root = NoTree
    /\ bt_trace = <<>>
    /\ BoardUnused
    /\ SideUnused

\* the construction of the tree: a ValueError ends the start-up
BuildTree ==
    /\ pc.phase = "build"
    /\ LET r == Construct(tree_spec)
       IN  /\ worker_root' = r.tree
           /\ pc' = IF r.ok THEN Phase("reset", 1) ELSE Phase("build_failed", NoAnt)
    /\ UNCHANGED <<cycle_count, blackboard, grid_ant, cell_pheromones, front,
                   deposits, nswaps, alpha_num, evap_num, ctx_intents, bt_result,
                   exec_summary, swap_calls, spatial_index, current_stomach,
                   cell_food, tree_spec, bt_trace, boardVars, sideVars>>

\* root.tick(ctx) on the constructed tree
TickRoot ==
    /\ pc.phase = "bt"
    /\ LET r == TickNode(worker_root, NewContext(blackboard[pc.agent]))
       IN  /\ ctx_intents' = r.ctx.intents
           /\ bt_result' = r.status
           /\ bt_trace' = r.ctx.trace
           /\ blackboard' = [blackboard EXCEPT ![pc.agent] = r.ctx.b]
           /\ pc' = IF r.status = "RAISED" THEN Phase("crashed", pc.agent)
                    ELSE Phase("apply", pc.agent)
    /\ UNCHANGED <<cycle_count, grid_ant, cell_pheromones, front, deposits, nswaps,
                   alpha_num, evap_num, exec_summary, swap_calls, spatial_index,
                   current_stomach, cell_food, tree_spec, worker_root, boardVars, sideVars>>

NextTree ==
    \/ BuildTree
    \/ ResetWorkerCycle
    \/ PreSensors
    \/ TickRoot
    \/ ApplyIntentsStep
    \/ PostSensors
    \/ PheromonesTick

SpecTree == InitTree /\ [][NextTree]_vars

\* --------------------------------------------------- blackboard on its own
\* The keys of the stand-alone blackboard: the two written at construction and
\* two that the sensors write. A key that is not in the dict reads as None.
Keys == {"agent_id", "cycle", "in_nest", "signaling_hunger"}
True == IntV(1)
False == IntV(0)

Unchanged == [set |-> FALSE, old |-> NoneV, new |-> NoneV]
Change(old, new) == [set |-> TRUE, old |-> old, new |-> new]
NoChanges == [k \in Keys |-> Unchanged]
EmptyData == [k \in Keys |-> NoneV]

\* Blackboard.__init__
NewBoard(agent_id) ==
    [data |-> [EmptyData EXCEPT !["agent_id"] = IntV(agent_id),
                                !["cycle"] = IntV(0)],
     previous_data |-> EmptyData,
     changes |-> NoChanges]

\* Blackboard.set: a differing value is recorded with the old value and
\* written to _data at once
BoardSetKey(b, key, value) ==
    IF b.data[key] = value THEN b
    ELSE [b EXCEPT !.changes[key] = Change(b.data[key], value),
                   !.data[key] = value]

\* Blackboard.diff
Diff(b) == b.changes

\* variant: the staged changes are kept by commit
CommitBoardKeepsChanges(b) == [b EXCEPT !.previous_data = b.data]

\* Blackboard.commit: the state the commit leaves
CommitBoard(b) == [b EXCEPT !.previous_data = b.data, !.changes = NoChanges]

\* Blackboard.rollback
RollbackBoard(b) == [b EXCEPT !.data = b.previous_data, !.changes = NoChanges]

\* the calls made so far: the last one, the one before it, what the last one
\* returned, and whether commit has been called
Called(op, returned, committed) ==
    [op |-> op, prior |-> last_call.op, returned |-> returned,
     committed |-> committed]

IsTrue(v) == v = True

\* bb_env_flags_sensor and bb_internal_state_sensor: the first reads the cell
\* of the environment, the second reads in_nest from the blackboard as it is
\* when the sensors run
SensorData(b, env) ==
    [in_nest |-> IF env.in_nest THEN True ELSE False,
     signaling_hunger |->
        IF env.hungry /\ IsTrue(b.data["in_nest"]) THEN True ELSE False]

\* Worker.update_from_sensors: one set per key of the merged sensor data
UpdateFromSensors(b, data) ==
    BoardSetKey(BoardSetKey(b, "in_nest", data.in_nest),
                "signaling_hunger", data.signaling_hunger)

InitBlackboard ==
    /\ cycle_count = 1
    /\ pc = Phase("board", NoAnt)
    /\ blackboard = [a \in Agents |->
            [position |-> InitialPosition(a), has_moved |-> FALSE,
             intents_executed |-> <<>>, signaling_hunger |-> "unset",
             pheromone_detected |-> "unset", social_stomach |-> 0]]
    /\ grid_ant = [c \in Cells |->
            IF \E a \in Agents : InitialPosition(a) = c
            THEN CHOOSE a \in Agents : InitialPosition(a) = c
            ELSE NoAnt]
    /\ cell_pheromones = ZeroField
    /\ front = ZeroField
    /\ deposits = ZeroField
    /\ nswaps = 0
    /\ alpha_num = 1
    /\ evap_num = 1
    /\ ctx_intents = <<>>
    /\ bt_result = ""
    /\ exec_summary = NoSummary
    /\ swap_calls = 0
    /\ spatial_index = NoIndex
    /\ current_stomach = [a \in Agents |-> 0]
    /\ cell_food = [c \in Cells |-> NoFood]
    /\ TreeUnused
    /\ board = NewBoard(1)
    /\ last_call = [NoCall EXCEPT !.returned = NoChanges]
    /\ sensor_env \in [in_nest : BOOLEAN, hungry : BOOLEAN]
    /\ SideUnused

worldVars ==
    <<cycle_count, pc, blackboard, grid_ant, cell_pheromones, front, deposits,
      nswaps, alpha_num, evap_num, ctx_intents, bt_result, exec_summary,
      swap_calls, spatial_index, current_stomach, cell_food>>

\* bb.set(key, value)
BoardSet ==
    /\ pc.phase = "board"
    /\ \E key \in {"cycle", "in_nest"}, value \in {False, True} :
          board' = BoardSetKey(board, key, value)
    /\ last_call' = Called("set", NoChanges, last_call.committed)
    /\ UNCHANGED <<worldVars, treeVars, sensor_env, sideVars>>

\* bb.commit(): returns the staged changes
BoardCommit ==
    /\ pc.phase = "board"
    /\ board' = CommitBoard(board)
    /\ last_call' = Called("commit", Diff(board), TRUE)
    /\ UNCHANGED <<worldVars, treeVars, sensor_env, sideVars>>

\* bb.rollback()
BoardRollback ==
    /\ pc.phase = "board"
    /\ board' = RollbackBoard(board)
    /\ last_call' = Called("rollback", NoChanges, last_call.committed)
    /\ UNCHANGED <<worldVars, treeVars, sensor_env, sideVars>>

\* SensorsRunner.update_worker: the sensors run, their merged data is set on
\* the blackboard, the diff is taken and committed, and the diff is returned
BoardUpdateWorker ==
    /\ pc.phase = "board"
    /\ LET written == UpdateFromSensors(board, SensorData(board, sensor_env))
       IN  /\ board' = CommitBoard(written)
           /\ last_call' = Called("update_worker", Diff(written), TRUE)
    /\ UNCHANGED <<worldVars, treeVars, sensor_env, sideVars>>

NextBlackboard ==
    \/ BoardSet
    \/ BoardCommit
    \/ BoardRollback
    \/ BoardUpdateWorker

SpecBlackboard == InitBlackboard /\ [][NextBlackboard]_vars

\* --------------------------------------------------------- plugin registry

\* the worlds of the tick loop, of the tree builder and of the blackboard,
\* for the specifications that do not use them
WorldAt(p) ==
    /\ cycle_count = 1
    /\ pc = p
    /\ blackboard = [a \in Agents |->
            [position |-> InitialPosition(a), has_moved |-> FALSE,
             intents_executed |-> <<>>, signaling_hunger |-> "unset",
             pheromone_detected |-> "unset", social_stomach |-> 0]]
    /\ grid_ant = [c \in Cells |->
            IF \E a \in Agents : InitialPosition(a) = c
            THEN CHOOSE a \in Agents : InitialPosition(a) = c
            ELSE NoAnt]
    /\ cell_pheromones = ZeroField
    /\ front = ZeroField
    /\ deposits = ZeroField
    /\ nswaps = 0
    /\ alpha_num = 1
    /\ evap_num = 1
    /\ ctx_intents = <<>>
    /\ bt_result = ""
    /\ exec_summary = NoSummary
    /\ swap_calls = 0
    /\ spatial_index = NoIndex
    /\ current_stomach = [a \in Agents |-> 0]
    /\ cell_food = [c \in Cells |-> NoFood]

WorldUnused == WorldAt(Phase("idle", NoAnt))

Kinds == <<"step", "trigger", "sensor">>
RegNames == {"move_to_food", "direct_feeding_opportunity"}

\* the dict a plugin returns from one register_* hook: its keys in order
NameSeqs == {<<>>, <<"move_to_food">>, <<"direct_feeding_opportunity">>,
             <<"move_to_food", "direct_feeding_opportunity">>}

\* a plugin module: its origin and what its three hooks return
Plugin(origin, steps, triggers, sensors) ==
    [origin |-> origin, step |-> steps, trigger |-> triggers, sensor |-> sensors]

\* the empty tables
EmptyTable == [n \in {} |-> ""]
EmptyRegistry == [step |-> EmptyTable, trigger |-> EmptyTable, sensor |-> EmptyTable]

Collision(kind, name, existing, new) ==
    [kind |-> kind, name |-> name, existing |-> existing, new |-> new]

Registered(map, error) == [map |-> map, error |-> error]

\* variant: a name offered again replaces the earlier registration
RECURSIVE RegisterItemsOverwriting(_, _, _, _, _)
RegisterItemsOverwriting(registry_map, items, i, origin, kind) ==
    IF i > Len(items) THEN Registered(registry_map, NoError)
    ELSE RegisterItemsOverwriting(
             [n \in DOMAIN registry_map \cup {items[i]} |->
                 IF n = items[i] THEN origin ELSE registry_map[n]],
             items, i + 1, origin, kind)

\* _register_items: the names of one dict go into one table in dict order; a
\* name the table already holds raises ValueError with the name and both
\* origins, and the names registered before it stay
RECURSIVE RegisterItems(_, _, _, _, _)
RegisterItems(registry_map, items, i, origin, kind) ==
    IF i > Len(items) THEN Registered(registry_map, NoError)
    ELSE IF items[i] \in DOMAIN registry_map
    THEN Registered(registry_map,
                    Collision(kind, items[i], registry_map[items[i]], origin))
    ELSE RegisterItems(
             [n \in DOMAIN registry_map \cup {items[i]} |->
                 IF n = items[i] THEN origin ELSE registry_map[n]],
             items, i + 1, origin, kind)

\* pm.hook.register_steps(): pluggy calls the plugin registered last first
HookResults(plugins) == [j \in 1..Len(plugins) |-> plugins[Len(plugins) + 1 - j]]

\* one loop of _collect_components: every non-empty dict of one hook goes
\* through _register_items into the table of its kind
RECURSIVE CollectKind(_, _, _, _)
CollectKind(reg, results, j, kind) ==
    IF j > Len(results) THEN Registered(reg, NoError)
    ELSE IF results[j][kind] = <<>> THEN CollectKind(reg, results, j + 1, kind)
    ELSE LET r == RegisterItems(reg[kind], results[j][kind], 1,
                                results[j].origin, kind)
             reg2 == [reg EXCEPT ![kind] = r.map]
         IN  IF r.error # NoError THEN Registered(reg2, r.error)
             ELSE CollectKind(reg2, results, j + 1, kind)

\* _collect_components: steps, then triggers, then sensors
RECURSIVE CollectComponents(_, _, _)
CollectComponents(reg, plugins, k) ==
    IF k > Len(Kinds) THEN Registered(reg, NoError)
    ELSE LET r == CollectKind(reg, HookResults(plugins), 1, Kinds[k])
         IN  IF r.error # NoError THEN r
             ELSE CollectComponents(r.map, plugins, k + 1)

Origins == <<"antsim.plugins.first", "antsim.plugins.second">>

InitRegistry ==
    /\ WorldUnused
    /\ TreeUnused
    /\ BoardUnused
    /\ BackendUnused
    /\ RunsUnused
    /\ LifeUnused
    /\ pm_plugins \in
          {<<Plugin(Origins[1], p.step, p.trigger, p.sensor),
             Plugin(Origins[2], q.step, q.trigger, q.sensor)>> :
             p \in [step : NameSeqs, trigger : NameSeqs, sensor : NameSeqs],
             q \in [step : NameSeqs, trigger : NameSeqs, sensor : NameSeqs]}
    /\ registry = EmptyRegistry
    /\ discovery = NoDiscovery

\* discover_and_register: the tables are cleared, the plugins are loaded and
\* their components collected; a collision leaves the call with ValueError
DiscoverAndRegister ==
    /\ pc.phase = "idle"
    /\ pm_plugins # <<>>
    /\ LET r == CollectComponents(EmptyRegistry, pm_plugins, 1)
       IN  /\ registry' = r.map
           /\ discovery' = [state |-> IF r.error = NoError THEN "done" ELSE "failed",
                            error |-> r.error]
    /\ UNCHANGED <<worldVars, treeVars, boardVars, pm_plugins, backendVars,
                   runsVars, lifeVars>>

NextRegistry == DiscoverAndRegister

SpecRegistry == InitRegistry /\ [][NextRegistry]_vars

\* ----------------------------------------------------------------- backend

RunIds == {"run-1", "run-2", "nonexistent-run-id"}

\* the JSON object a handler returns
Body(ok, state, error) == [ok |-> ok, state |-> state, error |-> error]

\* a route function that returns a dict: FastAPI sends it with status 200
JSONResponse(op, run_id, body) ==
    [op |-> op, run_id |-> run_id, status_code |-> 200, body |-> body]

\* RunManager.get_status
RunStatus(rs, run_id) ==
    IF run_id \notin DOMAIN rs THEN Body("", "error", "run_id not found")
    ELSE IF rs[run_id] = "running" THEN Body("", "running", "")
    ELSE Body("", "exited", "")

InitBackend ==
    /\ WorldUnused
    /\ TreeUnused
    /\ BoardUnused
    /\ RegistryUnused
    /\ RunsUnused
    /\ LifeUnused
    /\ runs = [r \in {} |-> ""]
    /\ response = NoResponse

\* POST /start: an invalid body or configuration is answered with ok: false;
\* otherwise the subprocess is started and recorded under a fresh run_id
StartRun ==
    /\ pc.phase = "idle"
    /\ \/ /\ response' = JSONResponse("start", "", Body("false", "", "invalid"))
          /\ UNCHANGED runs
       \/ \E run_id \in RunIds \ DOMAIN runs :
             /\ runs' = [r \in DOMAIN runs \cup {run_id} |->
                            IF r = run_id THEN "running" ELSE runs[r]]
             /\ response' = JSONResponse("start", run_id, Body("true", "", ""))
    /\ UNCHANGED <<worldVars, treeVars, boardVars, registryVars, runsVars, lifeVars>>

\* the subprocess of a run ends by itself
ProcessExits ==
    /\ pc.phase = "idle"
    /\ \E run_id \in DOMAIN runs :
          /\ runs[run_id] = "running"
          /\ runs' = [runs EXCEPT ![run_id] = "exited"]
    /\ UNCHANGED <<worldVars, treeVars, boardVars, registryVars, runsVars, lifeVars,
                   response>>

\* GET /status/{run_id}
GetStatus ==
    /\ pc.phase = "idle"
    /\ \E run_id \in RunIds :
          response' = JSONResponse("status", run_id, RunStatus(runs, run_id))
    /\ UNCHANGED <<worldVars, treeVars, boardVars, registryVars, runsVars, lifeVars,
                   runs>>

\* POST /stop/{run_id}: an unknown run is answered with ok: false, an exited
\* one with its state; a running one is terminated, and is reported as still
\* running when it has not ended after the kill
StopRun ==
    /\ pc.phase = "idle"
    /\ \E run_id \in RunIds :
          IF run_id \notin DOMAIN runs
          THEN /\ response' = JSONResponse("stop", run_id,
                                           Body("false", "", "run_id not found"))
               /\ UNCHANGED runs
          ELSE IF runs[run_id] = "exited"
          THEN /\ response' = JSONResponse("stop", run_id, Body("true", "exited", ""))
               /\ UNCHANGED runs
          ELSE \E final \in {"exited", "running"} :
                  /\ runs' = [runs EXCEPT ![run_id] = final]
                  /\ response' = JSONResponse("stop", run_id, Body("true", final, ""))
    /\ UNCHANGED <<worldVars, treeVars, boardVars, registryVars, runsVars, lifeVars>>

NextBackend ==
    \/ StartRun
    \/ ProcessExits
    \/ GetStatus
    \/ StopRun

SpecBackend == InitBackend /\ [][NextBackend]_vars

\* ------------------------------------------------------- two identical runs

\* the agent-ticks of a run that are followed
MaxRunSteps == 3

RunIndices == {1, 2}

\* the occupancy grid of a run, from the positions of its agents
GridOf(positions) ==
    [c \in Cells |->
        IF \E a \in Agents : positions[a] = c
        THEN CHOOSE a \in Agents : positions[a] = c
        ELSE NoAnt]

\* _neighbors8
Neighbors8(pos) ==
    {<<pos[1] + dx, pos[2] + dy>> : dx \in {-1, 0, 1}, dy \in {-1, 0, 1}}
        \ {pos}

\* random_move_step: the free neighbour cells inside the bounds
RandomMoveOptions(positions, a) ==
    {c \in Neighbors8(positions[a]) :
        WithinBounds(c[1], c[2]) /\ CellFree(GridOf(positions), c[1], c[2])}

\* the agent whose turn it is after n agent-ticks
AgentAt(n) == (n % NumAgents) + 1

\* both runs start from the same configuration and the same initial state
InitRuns ==
    /\ WorldUnused
    /\ TreeUnused
    /\ BoardUnused
    /\ RegistryUnused
    /\ BackendUnused
    /\ LifeUnused
    /\ run_positions = [r \in RunIndices |-> [a \in Agents |-> InitialPosition(a)]]
    /\ run_step = [r \in RunIndices |-> 0]

\* one agent-tick of one run with the tree of a single random_move leaf:
\* without options the step fails and nothing moves; otherwise random.choice
\* draws the target from the unseeded global generator and the executor
\* applies the Move
RandomMoveTick(r) ==
    /\ pc.phase = "idle"
    /\ run_step[r] < MaxRunSteps
    /\ LET a == AgentAt(run_step[r])
           positions == run_positions[r]
           options == RandomMoveOptions(positions, a)
       IN  IF options = {}
           THEN UNCHANGED run_positions
           ELSE \E target \in options :
                   LET m == ApplyMove(a, GridOf(positions), positions[a],
                                      MoveIntent(XY(target[1], target[2]), NoneXY))
                   IN  run_positions' =
                          [run_positions EXCEPT ![r] = [positions EXCEPT ![a] = m.pos]]
    /\ run_step' = [run_step EXCEPT ![r] = @ + 1]
    /\ UNCHANGED <<worldVars, treeVars, boardVars, registryVars, backendVars, lifeVars>>

NextRuns == \E r \in RunIndices : RandomMoveTick(r)

SpecRuns == InitRuns /\ [][NextRuns]_vars

\* ------------------------------------------------- queen and brood lifecycle

\* the ticks of a run that are followed
MaxLifeTick == 4
\* the energy levels of the demo colony, scaled down
QueenMaxEnergy == 6
BroodInitialEnergy == 5
BroodMaxEnergy == 8
\* the largest egg_laying_interval and max_eggs of a queen configuration
MaxInterval == 2
MaxEggs == 2

\* Queen.process_energy_cycle and the brood configuration of run_demo
QueenConversionRate == 8
QueenLossRate == 3
QueenHungerStrength == 3
BroodConversionRate == 5
BroodLossRate == 2
BroodHungerStrength == 2
BroodMaturationTime == 30
BroodIdOffset == 1000

\* the social stomach a queen starts with
QueenStomachs == {0, QueenConversionRate, 4 * QueenConversionRate}

\* build_demo_colony: one queen, the first agent; the others are workers
InitialQueens == <<1>>

\* Queen._initialize_blackboard
NewQueen(energy, social_stomach, interval, max_eggs) ==
    [energy |-> energy, max_energy |-> QueenMaxEnergy,
     social_stomach |-> social_stomach, egg_laying_interval |-> interval,
     eggs_laid |-> 0, last_egg_tick |-> 0, max_eggs |-> max_eggs,
     is_signaling_hunger |-> FALSE]

\* Brood._initialize_blackboard with the brood_config of run_demo
NewBrood(position, t) ==
    [energy |-> BroodInitialEnergy, max_energy |-> BroodMaxEnergy,
     social_stomach |-> 0, growth_progress |-> 0,
     maturation_time |-> BroodMaturationTime, created_tick |-> t,
     position |-> position, is_signaling_hunger |-> FALSE]

\* variant: the cycle never signals hunger
EnergyCycleSilent(b, conversion_rate, loss_rate, strength) ==
    LET fed == b.social_stomach > 0
        conversion_amount == Min(b.social_stomach, conversion_rate)
        energy_gain == Min(conversion_amount, b.max_energy - b.energy)
        after == IF fed
                 THEN [b EXCEPT !.energy = @ + energy_gain,
                                !.social_stomach = @ - conversion_amount]
                 ELSE [b EXCEPT !.energy = @ - Min(b.energy, loss_rate)]
    IN  [bb |-> after, is_alive |-> fed \/ after.energy > 0, intents |-> <<>>]

\* process_energy_cycle of Queen and of Brood: a filled stomach is converted
\* into energy up to max_energy, an empty one costs energy; at energy 0 the
\* agent is dead and nothing more is done; a living agent below max_energy
\* returns a hunger deposit
EnergyCycle(b, conversion_rate, loss_rate, strength) ==
    LET fed == b.social_stomach > 0
        conversion_amount == Min(b.social_stomach, conversion_rate)
        energy_gain == Min(conversion_amount, b.max_energy - b.energy)
        after == IF fed
                 THEN [b EXCEPT !.energy = @ + energy_gain,
                                !.social_stomach = @ - conversion_amount]
                 ELSE [b EXCEPT !.energy = @ - Min(b.energy, loss_rate)]
        is_alive == fed \/ after.energy > 0
        hungry == after.energy < after.max_energy
    IN  IF ~is_alive
        THEN [bb |-> after, is_alive |-> FALSE, intents |-> <<>>]
        ELSE [bb |-> [after EXCEPT !.is_signaling_hunger = hungry],
              is_alive |-> TRUE,
              intents |-> IF hungry
                          THEN <<DepositPheromoneIntent("hunger", IntV(strength), NoneXY)>>
                          ELSE <<>>]

\* variant: the interval since the last egg is not looked at
CanLayEggAnyTick(b, current_tick) ==
    b.eggs_laid < b.max_eggs /\ b.energy >= b.max_energy

\* Queen.can_lay_egg
CanLayEgg(b, current_tick) ==
    /\ current_tick - b.last_egg_tick >= b.egg_laying_interval
    /\ b.eggs_laid < b.max_eggs
    /\ b.energy >= b.max_energy

\* Queen.lay_egg
LayEgg(b, current_tick) ==
    IF CanLayEgg(b, current_tick)
    THEN [b EXCEPT !.last_egg_tick = current_tick, !.eggs_laid = @ + 1]
    ELSE b

\* Environment.add_brood: the brood is indexed under its id
AddBrood(reg, brood_id, brood) ==
    [i \in DOMAIN reg \cup {brood_id} |-> IF i = brood_id THEN brood ELSE reg[i]]

\* Environment.remove_brood
RemoveBrood(reg, brood_id) == [i \in DOMAIN reg \ {brood_id} |-> reg[i]]

\* Environment.remove_ant: the cell of the ant is cleared if it holds that ant
RemoveAnt(grid, registered, ant_id, pos) ==
    IF ant_id \notin registered THEN grid
    ELSE [c \in Cells |-> IF c = pos /\ grid[c] = ant_id THEN NoAnt ELSE grid[c]]

\* list.remove
ListRemove(list, x) == SelectSeq(list, LAMBDA y : y # x)

\* the hunger intents of an energy cycle are deposited at the agent's cell
RECURSIVE HungerDeposits(_, _, _, _, _)
HungerDeposits(s, id, pos, intents, i) ==
    IF i > Len(intents) THEN s
    ELSE IF intents[i].ptype = "hunger" /\ WithinBounds(pos[1], pos[2])
    THEN HungerDeposits(
             [s EXCEPT !.cph = AddPheromoneView(@, pos, "hunger", intents[i].strength.v),
                       !.dep = AddPheromoneField(@, pos, "hunger", intents[i].strength.v),
                       !.log.hunger = Append(@, [id |-> id, cell |-> pos,
                                                 strength |-> intents[i].strength.v])],
             id, pos, intents, i + 1)
    ELSE HungerDeposits(s, id, pos, intents, i + 1)

\* `for queen in queens:` with queens.remove(queen) inside: the list iterator
\* goes on by index over the list as it is now
RECURSIVE QueenLoop(_, _, _)
QueenLoop(s, i, t) ==
    IF i > Len(s.queens) THEN s
    ELSE LET q == s.queens[i]
             pos == blackboard[q].position
             r == EnergyCycle(s.queen_bb[q], QueenConversionRate, QueenLossRate,
                              QueenHungerStrength)
             s1 == [s EXCEPT !.queen_bb[q] = r.bb, !.log.cycled = Append(@, q)]
         IN  IF ~r.is_alive
             THEN QueenLoop([s1 EXCEPT !.queens = ListRemove(@, q),
                                       !.grid = RemoveAnt(@, s1.ant_registry, q, pos),
                                       !.ant_registry = @ \ {q},
                                       !.log.died = @ \cup {q}],
                            i + 1, t)
             ELSE LET s2 == HungerDeposits(s1, q, pos, r.intents, 1)
                      s3 == IF CanLayEgg(s2.queen_bb[q], t)
                            THEN [s2 EXCEPT
                                    !.queen_bb[q] = LayEgg(@, t),
                                    !.brood = AddBrood(@,
                                        Cardinality(DOMAIN s2.brood) + BroodIdOffset,
                                        NewBrood(pos, t)),
                                    !.log.laid = Append(@, t)]
                            ELSE s2
                  IN  QueenLoop(s3, i + 1, t)

\* Brood.can_grow, Brood.grow
Grow(b) ==
    IF b.energy >= b.max_energy THEN [b EXCEPT !.growth_progress = @ + 1] ELSE b

\* Brood.can_mature
CanMature(b) == b.growth_progress >= b.maturation_time

\* the ids of a registry in the order they were added
RECURSIVE IdsInOrder(_)
IdsInOrder(S) ==
    IF S = {} THEN <<>>
    ELSE LET m == CHOOSE x \in S : \A y \in S : x <= y
         IN  <<m>> \o IdsInOrder(S \ {m})

\* `for brood in list(env.brood_registry.values()):` energy cycle, hunger
\* deposit, growth and the maturation check of every brood of the copy
RECURSIVE BroodLoop(_, _, _, _)
BroodLoop(s, ids, i, t) ==
    IF i > Len(ids) THEN s
    ELSE LET id == ids[i]
             r == EnergyCycle(s.brood[id], BroodConversionRate, BroodLossRate,
                              BroodHungerStrength)
             s1 == [s EXCEPT !.brood[id] = r.bb, !.log.cycled = Append(@, id)]
         IN  IF ~r.is_alive
             THEN BroodLoop([s1 EXCEPT !.to_remove = @ \cup {id},
                                       !.log.died = @ \cup {id}],
                            ids, i + 1, t)
             ELSE LET s2 == HungerDeposits(s1, id, s1.brood[id].position, r.intents, 1)
                      s3 == [s2 EXCEPT !.brood[id] = Grow(@)]
                      s4 == IF CanMature(s3.brood[id])
                            THEN [s3 EXCEPT !.to_mature = @ \cup {id}] ELSE s3
                  IN  BroodLoop(s4, ids, i + 1, t)

\* the brood of to_remove leaves the registry
RemoveAll(reg, ids) == [i \in DOMAIN reg \ ids |-> reg[i]]

LoopState ==
    [queens |-> queens, queen_bb |-> queen_bb, ant_registry |-> ant_registry,
     grid |-> grid_ant, dep |-> deposits, cph |-> cell_pheromones,
     brood |-> brood_registry, log |-> tick_log, to_remove |-> {},
     to_mature |-> {}]

InitLifecycle ==
    /\ WorldAt(Phase("life_bt", NoAnt))
    /\ TreeUnused
    /\ BoardUnused
    /\ RegistryUnused
    /\ BackendUnused
    /\ RunsUnused
    /\ queens = InitialQueens
    /\ all_agents = [i \in 1..NumAgents |-> i]
    /\ ant_registry = Agents
    /\ \E energy \in {QueenMaxEnergy - QueenLossRate, QueenMaxEnergy},
          social_stomach \in QueenStomachs,
          interval \in 1..MaxInterval, max_eggs \in 1..MaxEggs :
          queen_bb = [q \in {InitialQueens[1]} |->
                         NewQueen(energy, social_stomach, interval, max_eggs)]
    /\ brood_registry = [i \in {} |-> NewBrood(<<0, 0>>, 0)]
    /\ tick_log = NoLog

\* `for agent in all_agents: engine.tick_agent(agent, env)`: every agent of
\* the list is reset, sensed and ticked; what its tree does is left out here,
\* but for its end: tick_agent returns, or it raises what apply_intents
\* raised, and nothing around the loop catches that
LifeTickAgents ==
    /\ pc.phase = "life_bt"
    /\ \E n \in 1..Len(all_agents), raised \in BOOLEAN :
          /\ raised \/ n = Len(all_agents)
          /\ tick_log' = [bt_ticked |-> SubSeq(all_agents, 1, n), cycled |-> <<>>,
                          hunger |-> <<>>, died |-> {},
                          dead_before |-> tick_log.dead_before \cup tick_log.died,
                          laid |-> tick_log.laid]
          /\ pc' = IF raised THEN Phase("life_crashed", NoAnt)
                   ELSE Phase("life_queens", NoAnt)
    /\ UNCHANGED <<cycle_count, blackboard, grid_ant, cell_pheromones, front,
                   deposits, nswaps, alpha_num, evap_num, ctx_intents, bt_result,
                   exec_summary, swap_calls, spatial_index, current_stomach,
                   cell_food, treeVars, boardVars, registryVars, backendVars,
                   runsVars, queens, all_agents, ant_registry, queen_bb,
                   brood_registry>>

\* the queen loop of run_demo: energy cycle, removal of a dead queen from
\* queens and from the environment, hunger deposit, egg laying
LifeQueens ==
    /\ pc.phase = "life_queens"
    /\ LET s == QueenLoop(LoopState, 1, cycle_count)
       IN  /\ queens' = s.queens
           /\ queen_bb' = s.queen_bb
           /\ ant_registry' = s.ant_registry
           /\ grid_ant' = s.grid
           /\ deposits' = s.dep
           /\ cell_pheromones' = s.cph
           /\ brood_registry' = s.brood
           /\ tick_log' = s.log
    /\ pc' = Phase("life_brood", NoAnt)
    /\ UNCHANGED <<cycle_count, blackboard, front, nswaps, alpha_num, evap_num,
                   ctx_intents, bt_result, exec_summary, swap_calls,
                   spatial_index, current_stomach, cell_food, treeVars,
                   boardVars, registryVars, backendVars, runsVars, all_agents>>

\* the brood loop of run_demo, the removal of the dead brood and the
\* maturation, whose import of antsim.core.agents.Agent fails
LifeBrood ==
    /\ pc.phase = "life_brood"
    /\ LET s == BroodLoop(LoopState, IdsInOrder(DOMAIN brood_registry), 1,
                          cycle_count)
       IN  /\ brood_registry' = RemoveAll(s.brood, s.to_remove)
           /\ deposits' = s.dep
           /\ cell_pheromones' = s.cph
           /\ tick_log' = s.log
           /\ pc' = IF s.to_mature # {} THEN Phase("life_crashed", NoAnt)
                    ELSE Phase("life_swap", NoAnt)
    /\ UNCHANGED <<cycle_count, blackboard, grid_ant, front, nswaps, alpha_num,
                   evap_num, ctx_intents, bt_result, exec_summary, swap_calls,
                   spatial_index, current_stomach, cell_food, treeVars,
                   boardVars, registryVars, backendVars, runsVars, queens,
                   all_agents, ant_registry, queen_bb>>

\* env.pheromones_tick() ends the tick
LifePheromonesTick ==
    /\ pc.phase = "life_swap"
    /\ front' = UpdateAndSwap(front, deposits, alpha_num, evap_num, nswaps)
    /\ deposits' = ZeroField
    /\ nswaps' = nswaps + 1
    /\ IF cycle_count < MaxLifeTick
       THEN /\ cycle_count' = cycle_count + 1
            /\ pc' = Phase("life_bt", NoAnt)
       ELSE /\ pc' = Phase("life_done", NoAnt)
            /\ UNCHANGED cycle_count
    /\ UNCHANGED <<blackboard, grid_ant, cell_pheromones, alpha_num, evap_num,
                   ctx_intents, bt_result, exec_summary, swap_calls,
                   spatial_index, current_stomach, cell_food, treeVars,
                   boardVars, registryVars, backendVars, runsVars, lifeVars>>

NextLifecycle ==
    \/ LifeTickAgents
    \/ LifeQueens
    \/ LifeBrood
    \/ LifePheromonesTick

SpecLifecycle == InitLifecycle /\ [][NextLifecycle]_vars

\* ------------------------------------------------------------- properties
\* Helpers over the event log of the last apply_intents call.
IsMove(e) == e.intent.type = "MOVE"
IsExecutedMove(e) == IsMove(e) /\ e.status = "executed"
EarlierMove(ev, i) == \E j \in 1..(i - 1) : IsExecutedMove(ev[j])

\* the agent's cell when the i-th event was processed
CurAt(ev, i, start) ==
    IF EarlierMove(ev, i)
    THEN LET j == CHOOSE j \in 1..(i - 1) : IsExecutedMove(ev[j])
         IN  <<ev[j].pos.x, ev[j].pos.y>>
    ELSE start

\* the cell a Move asks for: its target, or the current cell plus its delta
HasDest(e) == e.intent.target.k = "xy" \/ e.intent.delta.k = "xy"
Dest(e, cur) ==
    IF e.intent.target.k = "xy" THEN <<e.intent.target.x, e.intent.target.y>>
    ELSE <<cur[1] + e.intent.delta.x, cur[2] + e.intent.delta.y>>

MovesIn(entries) == SelectSeq(entries, IsMove)

\* C1: for every agent and tick at most one Move is executed; an executed
\* Move sets has_moved, every later Move of the batch is rejected with
\* move_already_done, and that reason is only given after an executed Move.
SingleMovePerTick ==
    /\ \A a \in Agents : Len(MovesIn(blackboard[a].intents_executed)) <= 1
    /\ exec_summary.called =>
          LET ev == exec_summary.events
          IN  /\ Len(MovesIn(exec_summary.executed)) <= 1
              /\ \A i \in DOMAIN ev :
                    /\ IsExecutedMove(ev[i]) =>
                          /\ blackboard[exec_summary.agent].has_moved
                          /\ \A j \in (i + 1)..Len(ev) :
                                IsMove(ev[j]) =>
                                    /\ ev[j].status = "rejected"
                                    /\ ev[j].reason = "move_already_done"
                    /\ ev[i].reason = "move_already_done" => EarlierMove(ev, i)

\* C1 witness: a batch whose first Move was executed and whose second Move
\* was rejected with move_already_done.
SecondMoveRejected ==
    /\ exec_summary.called
    /\ \E i, j \in DOMAIN exec_summary.events :
          /\ i < j
          /\ IsExecutedMove(exec_summary.events[i])
          /\ exec_summary.events[j].reason = "move_already_done"

MoveOutsideRejectedOutOfBounds ==
    exec_summary.called =>
        LET ev == exec_summary.events
        IN  \A i \in DOMAIN ev :
              IsMove(ev[i]) =>
                  /\ ev[i].status = "executed" =>
                        <<ev[i].pos.x, ev[i].pos.y>> \in Cells
                  /\ (/\ HasDest(ev[i])
                      /\ Dest(ev[i], CurAt(ev, i, exec_summary.start_pos)) \notin Cells)
                        => /\ ev[i].status = "rejected"
                           /\ ev[i].reason = "out_of_bounds"

\* C3 amended: an executed Move ends inside the grid; a Move asking for a
\* cell outside the grid is always rejected, and the reason is out_of_bounds
\* when the agent has not moved yet in this tick and the intent gives exactly
\* one of target and delta.
MoveStaysInGrid ==
    exec_summary.called =>
        LET ev == exec_summary.events
        IN  \A i \in DOMAIN ev :
              IsMove(ev[i]) =>
                  /\ ev[i].status = "executed" =>
                        /\ <<ev[i].pos.x, ev[i].pos.y>> \in Cells
                        /\ blackboard[exec_summary.agent].position \in Cells
                  /\ (/\ HasDest(ev[i])
                      /\ Dest(ev[i], CurAt(ev, i, exec_summary.start_pos)) \notin Cells)
                        => /\ ev[i].status = "rejected"
                           /\ (/\ ~EarlierMove(ev, i)
                               /\ (ev[i].intent.target.k = "none"
                                      \/ ev[i].intent.delta.k = "none"))
                                 => ev[i].reason = "out_of_bounds"

\* C3 witness: a Move out of the grid was rejected with out_of_bounds and a
\* later Move of the same batch was executed.
OutOfBoundsThenMoved ==
    /\ exec_summary.called
    /\ \E i, j \in DOMAIN exec_summary.events :
          /\ i < j
          /\ exec_summary.events[i].reason = "out_of_bounds"
          /\ IsExecutedMove(exec_summary.events[j])

\* C4 as stated: nothing a reader can see - the front buffer or the cells'
\* pheromone views - changes before update_and_swap runs at the tick's end.
DepositsInvisibleUntilSwap ==
    [][pc.phase # "swap" => (front' = front /\ cell_pheromones' = cell_pheromones)]_vars

\* C5: update_and_swap runs once per global tick: as many calls as finished
\* ticks, the buffers are published only by the step that ends the tick, and
\* that step is reached only from the last agent's post-sensor phase.
SwapOncePerTick ==
    /\ [](swap_calls = IF pc.phase = "done" THEN cycle_count ELSE cycle_count - 1)
    /\ [][(swap_calls' # swap_calls \/ front' # front \/ nswaps' # nswaps)
            => (pc.phase = "swap" /\ swap_calls' = swap_calls + 1)]_vars
    /\ [][(pc'.phase = "swap" /\ pc.phase # "swap")
            => pc = Phase("post", NumAgents)]_vars

\* C5 witness: two global ticks are over, two swaps were made and a deposit
\* of the run has been published.
TwoTicksSwapped ==
    /\ pc.phase = "done"
    /\ swap_calls >= 2
    /\ \E c \in Cells : front["food"][c] > 0

\* C6: every front buffer value is non-negative.
FrontNonNegative ==
    \A t \in PTypes : \A c \in Cells : front[t][c] >= 0

\* C6 witness: after a swap with diffusion a deposit has spread, so a cell
\* that received no deposit holds a positive value.
DepositDiffused ==
    /\ pc.phase = "field"
    /\ nswaps >= 1
    /\ alpha_num > 0
    /\ \E t \in PTypes : \E c, d \in Cells :
          c # d /\ front[t][c] > 0 /\ front[t][d] > 0

\* C7 as stated: evaluating the tree changes neither the environment nor
\* any blackboard.
TreeTickLeavesWorldUnchanged ==
    [][pc.phase = "bt" =>
          /\ blackboard' = blackboard
          /\ grid_ant' = grid_ant
          /\ cell_pheromones' = cell_pheromones
          /\ front' = front
          /\ deposits' = deposits]_vars

\* C8 as stated: apply_intents never raises; every intent of the batch ends
\* in the executed or in the rejected list.
ApplyIntentsNeverRaises ==
    exec_summary.called =>
        /\ ~exec_summary.raised
        /\ Len(exec_summary.executed) + Len(exec_summary.rejected) = Len(ctx_intents)

\* C9 as stated: a Move to the agent's own cell, made before any other Move
\* of the tick, is executed and sets has_moved.
OwnCellMoveSucceeds ==
    exec_summary.called =>
        LET ev == exec_summary.events
        IN  \A i \in DOMAIN ev :
              (/\ IsMove(ev[i])
               /\ ~EarlierMove(ev, i)
               /\ ev[i].intent.target.k = "none"
               /\ ev[i].intent.delta = XY(0, 0))
                 => /\ ev[i].status = "executed"
                    /\ blackboard[exec_summary.agent].has_moved

\* C10: the batch is applied in the order the tree produced it: the events
\* follow the batch, and a deposit without position lands on the cell the
\* agent occupies at that point of the batch - the start cell before an
\* executed Move, the new cell after it.
IsHereDeposit(e) ==
    /\ e.intent.type = "PHEROMONE"
    /\ e.status = "executed"
    /\ e.intent.position.k = "none"

BatchAppliedInOrder ==
    [][(pc.phase = "apply" /\ exec_summary'.called /\ ~exec_summary'.raised) =>
          LET ev == SelectSeq(exec_summary'.events,
                              LAMBDA e : e.reason # "invalid_type")
              start == blackboard[pc.agent].position
          IN  /\ [i \in DOMAIN ev |-> ev[i].intent] = Normalise(ctx_intents)
              /\ \A i \in DOMAIN ev :
                    IsHereDeposit(ev[i]) =>
                        LET c == CurAt(ev, i, start)
                            n == Cardinality({j \in DOMAIN ev :
                                    /\ IsHereDeposit(ev[j])
                                    /\ ev[j].intent.ptype = ev[i].intent.ptype
                                    /\ CurAt(ev, j, start) = c})
                        IN  /\ ev[i].pos = XY(c[1], c[2])
                            /\ deposits'[ev[i].intent.ptype][c]
                                  >= deposits[ev[i].intent.ptype][c] + n
                            /\ cell_pheromones'[ev[i].intent.ptype][c]
                                  >= cell_pheromones[ev[i].intent.ptype][c] + n]_vars

\* C10 witness: a batch moved the agent and then deposited at the new cell.
MovedThenDeposited ==
    /\ exec_summary.called
    /\ \E i, j \in DOMAIN exec_summary.events :
          /\ i < j
          /\ IsExecutedMove(exec_summary.events[i])
          /\ IsHereDeposit(exec_summary.events[j])
          /\ exec_summary.events[j].pos = exec_summary.events[i].pos
          /\ exec_summary.events[j].pos
                # XY(exec_summary.start_pos[1], exec_summary.start_pos[2])

MassConservedWithoutEvaporation ==
    [][(nswaps' = nswaps + 1 /\ evap_num = 0 /\ deposits = ZeroField) =>
          \A t \in PTypes :
              LayerSum(front'[t]) = LayerSum(front[t]) * ScaleStep]_vars

\* C13 witness: one unit deposited before the first swap has diffused twice,
\* the second time with nothing staged, and reached a cell two steps away.
DiffusedTwiceWithoutDeposit ==
    /\ pc.phase = "field"
    /\ evap_num = 0
    /\ alpha_num > 0
    /\ nswaps = 2
    /\ \E t \in PTypes :
          /\ LayerSum(front[t]) = ScaleAt(2)
          /\ \E c, d \in Cells :
                /\ Abs(c[1] - d[1]) + Abs(c[2] - d[2]) >= 2
                /\ front[t][c] > 0
                /\ front[t][d] > 0

\* C14: a batch in which no Move is executed leaves position, has_moved and
\* every cell's occupant as they were, whatever Moves it rejected; a batch
\* with an executed Move changes exactly what that Move changes.
RejectedMoveChangesNothing ==
    [][(pc.phase = "apply" /\ exec_summary'.called) =>
          LET ev == exec_summary'.events
              a == pc.agent
              done == {i \in DOMAIN ev : IsExecutedMove(ev[i])}
          IN  IF done = {}
              THEN /\ blackboard'[a].position = blackboard[a].position
                   /\ blackboard'[a].has_moved = blackboard[a].has_moved
                   /\ grid_ant' = grid_ant
              ELSE \E i \in done :
                      LET new == <<ev[i].pos.x, ev[i].pos.y>>
                      IN  /\ blackboard'[a].position = new
                          /\ grid_ant' = MoveOccupy(grid_ant, blackboard[a].position, new, a)]_vars

\* C14 witness: a batch of two Moves, one rejected as blocked and one as
\* out_of_bounds, after which the agent has not moved.
TwoMovesRejected ==
    /\ exec_summary.called
    /\ ~blackboard[exec_summary.agent].has_moved
    /\ \E i, j \in DOMAIN exec_summary.events :
          /\ exec_summary.events[i].reason = "blocked"
          /\ exec_summary.events[j].reason \in {"out_of_bounds", "too_far"}

\* C15: the tick loop visits the agents one after another in the order
\* reset, pre-sensors, tree, apply, post-sensors; when an agent's tree is
\* evaluated no intent of another agent is pending, and apply_intents has
\* dealt with every intent of the batch before the next phase starts.
PhaseOrder(p, q) ==
    \/ p.phase = "reset" /\ q = Phase("pre", p.agent)
    \/ p.phase = "pre" /\ q = Phase("bt", p.agent)
    \/ p.phase = "bt" /\ q = Phase("apply", p.agent)
    \/ p.phase = "apply" /\ q \in {Phase("post", p.agent), Phase("crashed", p.agent)}
    \/ p.phase = "post" /\ p.agent < NumAgents /\ q = Phase("reset", p.agent + 1)
    \/ p.phase = "post" /\ p.agent = NumAgents /\ q = Phase("swap", NoAnt)
    \/ p.phase = "swap" /\ q \in {Phase("reset", 1), Phase("done", NoAnt)}

AgentsOneAfterAnother ==
    /\ [][pc' # pc => PhaseOrder(pc, pc')]_vars
    /\ [](pc.phase \in {"reset", "pre", "bt"} =>
              (ctx_intents = <<>> /\ ~exec_summary.called))
    /\ [][(pc.phase = "apply" /\ pc'.phase = "post" /\ exec_summary'.called) =>
              Len(exec_summary'.events) = Len(ctx_intents)]_vars

\* C15 witness: the second agent's tree is about to be evaluated and the
\* first agent's executed intents of this tick are on its blackboard.
SecondAgentAfterFirstApplied ==
    /\ pc = Phase("bt", 2)
    /\ blackboard[1].intents_executed # <<>>
    /\ cycle_count = 2

\* C16 as stated: when a later agent's tree is evaluated, the occupancy grid
\* and the spatial index its sensors were given show every agent at its
\* current cell.
MoveVisibleToLaterAgents ==
    (pc.phase = "bt" /\ pc.agent > 1) =>
        \A a \in Agents :
            /\ grid_ant[blackboard[a].position] = a
            /\ \A c \in Cells : grid_ant[c] = a => c = blackboard[a].position
            /\ spatial_index.positions[a] = blackboard[a].position

\* A deposit intent the field drops: its amount is not positive or its
\* explicit position lies outside the grid.
IsDroppedDeposit(it) ==
    /\ it.type = "PHEROMONE"
    /\ it.strength.k = "int"
    /\ it.position.k # "bad"
    /\ \/ it.strength.v <= 0
       \/ it.position.k = "xy" /\ <<it.position.x, it.position.y>> \notin Cells

\* C17: a batch of deposits that lie outside the grid or have a non-positive
\* amount is applied without error and changes neither the staged deposits
\* nor the pheromone value of any cell.
DroppedDepositChangesNothing ==
    [][(pc.phase = "apply" /\ ctx_intents # <<>>
          /\ \A i \in 1..Len(ctx_intents) : IsDroppedDeposit(ctx_intents[i]))
        => (/\ deposits' = deposits
            /\ cell_pheromones' = cell_pheromones
            /\ ~exec_summary'.raised)]_vars

\* C17: a deposit at a negative coordinate was executed and staged an amount.
NegativeDepositStaged ==
    /\ exec_summary.called
    /\ \E i \in 1..Len(exec_summary.executed) :
          LET e == exec_summary.executed[i]
          IN  IsDroppedDeposit(e.intent) /\ e.intent.position.x < 0
    /\ deposits # ZeroField

\* C18: with alpha or the evaporation out of range the first update_and_swap
\* ends the run: once it was called, the tick loop is no longer running and
\* no further tick was started.
InvalidParamsStopTheRun ==
    (~ValidParams(alpha_num, evap_num) /\ swap_calls >= 1)
        => (pc.phase = "crashed" /\ cycle_count = 1)

\* C18: a second tick is running although the field rejected its parameters
\* at the end of the first.
TickAfterRejectedParams ==
    /\ ~ValidParams(alpha_num, evap_num)
    /\ swap_calls = 1
    /\ cycle_count = 2
    /\ pc.phase = "apply"
    /\ nswaps = 0

\* Helpers over one apply_intents step of the executor.
TypesIn(batch) == {batch[i].type : i \in 1..Len(batch)}
StomachSum(cur) == SumOver(cur, Agents)
FoodSum(food) == SumOver([c \in Cells |-> food[c].amount], Cells)
SocialSum(bb) == SumOver([a \in Agents |-> bb[a].social_stomach], Agents)

\* C19 as stated: an executed Feed moves min(donor social_stomach, target
\* free capacity, requested amount if given) units from the donor's social
\* stomach to the target's stomach.
FeedMovesMinOfRequest ==
    [][(pc.phase = "apply" /\ Len(ctx_intents) = 1 /\ ctx_intents[1].type = "FEED"
          /\ exec_summary'.executed # <<>>)
        => LET it == ctx_intents[1]
               t == it.target_id.v
               social == blackboard[pc.agent].social_stomach
               free == StomachCapacity - current_stomach[t]
               n == IF it.amount.k = "none" THEN Min(social, free)
                    ELSE Min(Min(social, free), it.amount.v)
           IN  /\ blackboard'[pc.agent].social_stomach = social - n
               /\ current_stomach'[t] = current_stomach[t] + n]_vars

\* C19: an executed Feed moves min(donor social_stomach, target free
\* capacity, requested amount if given and taken as zero when negative)
\* units: the donor's social_stomach decreases and the target's stomach
\* increases by that amount, feeding conserves their sum, and no stomach
\* exceeds its capacity.
FeedMovesMinOfClampedRequest ==
    /\ [][(pc.phase = "apply" /\ Len(ctx_intents) = 1 /\ ctx_intents[1].type = "FEED"
            /\ exec_summary'.executed # <<>>)
          => LET it == ctx_intents[1]
                 t == it.target_id.v
                 social == blackboard[pc.agent].social_stomach
                 free == StomachCapacity - current_stomach[t]
                 n == IF it.amount.k = "none" THEN Min(social, free)
                      ELSE Min(Min(social, free), Max(0, it.amount.v))
             IN  /\ exec_summary'.executed[1].n = n
                 /\ blackboard'[pc.agent].social_stomach = social - n
                 /\ current_stomach'[t] = current_stomach[t] + n]_vars
    /\ [][(pc.phase = "apply" /\ "COLLECT_FOOD" \notin TypesIn(ctx_intents))
          => SocialSum(blackboard') + StomachSum(current_stomach')
                = SocialSum(blackboard) + StomachSum(current_stomach)]_vars
    /\ [](\A a \in Agents : /\ current_stomach[a] <= StomachCapacity
                            /\ blackboard[a].social_stomach >= 0)

\* C19 witness: a Feed limited by the free capacity of the target was
\* executed and filled the target's stomach.
FeedFilledTarget ==
    /\ exec_summary.called
    /\ \E i \in 1..Len(exec_summary.executed) :
          LET e == exec_summary.executed[i]
          IN  /\ e.intent.type = "FEED"
              /\ e.intent.amount.k = "none"
              /\ e.n >= 1
              /\ current_stomach[e.intent.target_id.v] = StomachCapacity
              /\ blackboard[exec_summary.agent].social_stomach >= 1

\* C20: an executed CollectFood moves min(requested, free social-stomach
\* capacity, available food) units from the cell's food to the worker's
\* social stomach; collecting conserves food plus social stomachs, the social
\* stomach never exceeds its capacity, and a cell never holds a food object
\* with an amount of zero or less.
CollectMovesMin ==
    /\ [][(pc.phase = "apply" /\ Len(ctx_intents) = 1
            /\ ctx_intents[1].type = "COLLECT_FOOD"
            /\ ctx_intents[1].position.k = "none"
            /\ exec_summary'.executed # <<>>)
          => LET it == ctx_intents[1]
                 c == blackboard[pc.agent].position
                 social == blackboard[pc.agent].social_stomach
                 requested == IF it.amount.k = "int" THEN it.amount.v ELSE DefaultCollect
                 n == Min(Min(requested, SocialStomachCapacity - social),
                          cell_food[c].amount)
             IN  /\ n >= 1
                 /\ exec_summary'.executed[1].n = n
                 /\ blackboard'[pc.agent].social_stomach = social + n
                 /\ cell_food'[c].amount = cell_food[c].amount - n
                 /\ \A d \in Cells \ {c} : cell_food'[d] = cell_food[d]]_vars
    /\ [][(pc.phase = "apply" /\ "FEED" \notin TypesIn(ctx_intents))
          => FoodSum(cell_food') + SocialSum(blackboard')
                = FoodSum(cell_food) + SocialSum(blackboard)]_vars
    /\ [](\A a \in Agents : blackboard[a].social_stomach <= SocialStomachCapacity)
    /\ [](\A c \in Cells : IF cell_food[c].has THEN cell_food[c].amount >= 1
                                               ELSE cell_food[c] = NoFood)

\* C20 witness: a collection limited by the free capacity left food behind,
\* and another one emptied a cell.
CollectedUpToCapacity ==
    /\ exec_summary.called
    /\ \E i \in 1..Len(exec_summary.executed) :
          LET e == exec_summary.executed[i]
          IN  /\ e.intent.type = "COLLECT_FOOD"
              /\ e.n >= 1
              /\ e.n < MaxFood
    /\ blackboard[exec_summary.agent].social_stomach = SocialStomachCapacity
    /\ cell_food[InitialPosition(exec_summary.agent)].has
    /\ cell_food[<<W - 1, 0>>] = NoFood

\* C21: the reset at the start of an agent-tick sets has_moved to false and
\* empties intents_executed; a Move is rejected as move_already_done only
\* after a Move executed earlier in the same batch, and after apply_intents
\* the log holds the entries of this batch alone.
ResetClearsTickMarkers ==
    /\ [][pc.phase = "reset"
            => (/\ ~blackboard'[pc.agent].has_moved
                /\ blackboard'[pc.agent].intents_executed = <<>>)]_vars
    /\ [][(pc.phase = "apply" /\ ctx_intents # <<>>)
            => LET ev == exec_summary'.events
               IN  /\ \A i \in 1..Len(ev) :
                         ev[i].reason = "move_already_done" => EarlierMove(ev, i)
                   /\ blackboard'[pc.agent].intents_executed
                         = IF exec_summary'.raised THEN <<>>
                           ELSE exec_summary'.executed]_vars

\* C21 witness: an agent moved away from its cell in the first tick and
\* back to it in the second: the Move of the second tick was executed, and
\* the log of the agent holds that Move alone.
MovedAgainNextTick ==
    /\ cycle_count = 2
    /\ pc.phase = "post"
    /\ exec_summary.called
    /\ blackboard[pc.agent].position = InitialPosition(pc.agent)
    /\ blackboard[pc.agent].has_moved
    /\ Len(MovesIn(blackboard[pc.agent].intents_executed)) = 1
    /\ Len(blackboard[pc.agent].intents_executed) = 1

\* Helpers over the transition log of the last tree tick.
RECURSIVE NodeAt(_, _)
NodeAt(node, path) ==
    IF path = <<>> THEN node ELSE NodeAt(node.children[Head(path)], Tail(path))

NodeEntries == {i \in 1..Len(bt_trace) : bt_trace[i].type # "trigger"}
Evaluated(path) == \E i \in NodeEntries : bt_trace[i].path = path
EntryOf(path) == CHOOSE i \in NodeEntries : bt_trace[i].path = path
StatusAt(path) == bt_trace[EntryOf(path)].status

\* Every ticked composite of the given type ticked its children in order up
\* to the first one whose status is not continue_on, returned that status,
\* and returned continue_on when there was none.
CompositeRule(type, continue_on) ==
    \A i \in NodeEntries :
        bt_trace[i].type = type =>
            LET p == bt_trace[i].path
                n == Len(NodeAt(worker_root, p).children)
                ev == {k \in 1..n : Evaluated(Append(p, k))}
                m == Cardinality(ev)
            IN  /\ ev = 1..m
                /\ \A k \in 1..(m - 1) :
                      /\ StatusAt(Append(p, k)) = continue_on
                      /\ EntryOf(Append(p, k)) < EntryOf(Append(p, k + 1))
                /\ IF m > 0 /\ StatusAt(Append(p, m)) # continue_on
                   THEN bt_trace[i].status = StatusAt(Append(p, m))
                   ELSE m = n /\ bt_trace[i].status = continue_on

\* C22: a Sequence ticks its children in order and returns the status of the
\* first child that is not SUCCESS without ticking the children after it; it
\* returns SUCCESS only when every child returned SUCCESS.
SequenceStopsAtFirstNonSuccess ==
    pc.phase = "apply" =>
        /\ CompositeRule("sequence", "SUCCESS")
        /\ bt_result = StatusAt(<<>>)

\* C22 witness: the first child of a sequence is RUNNING, the second child
\* was not ticked and the sequence returned RUNNING.
SequenceStoppedAtRunningChild ==
    /\ pc.phase = "apply"
    /\ worker_root.type = "sequence"
    /\ Len(worker_root.children) = 2
    /\ Evaluated(<<1>>)
    /\ StatusAt(<<1>>) = "RUNNING"
    /\ ~Evaluated(<<2>>)
    /\ bt_result = "RUNNING"

\* C23: a Selector ticks its children in order and returns the status of the
\* first child that is not FAILURE without ticking the children after it; it
\* returns FAILURE only when every child returned FAILURE.
SelectorStopsAtFirstNonFailure ==
    pc.phase = "apply" =>
        /\ CompositeRule("selector", "FAILURE")
        /\ StatusAt(<<>>) = bt_result

\* C23 witness: the first child of a selector failed, the second succeeded
\* and the selector returned SUCCESS.
SelectorFellThroughToSuccess ==
    /\ pc.phase = "apply"
    /\ worker_root.type = "selector"
    /\ Len(worker_root.children) = 2
    /\ Evaluated(<<1>>)
    /\ StatusAt(<<1>>) = "FAILURE"
    /\ Evaluated(<<2>>)
    /\ StatusAt(<<2>>) = "SUCCESS"
    /\ bt_result = "SUCCESS"

RECURSIVE IntentsOfLeaves(_, _)
\* the intents returned by the ticked step leaves whose status is in
\* statuses, in the order of the log from entry i on
IntentsOfLeaves(i, statuses) ==
    IF i > Len(bt_trace) THEN <<>>
    ELSE (IF /\ bt_trace[i].type = "step"
             /\ bt_trace[i].raised = ""
             /\ bt_trace[i].status \in statuses
          THEN StepReturn(NodeAt(worker_root, bt_trace[i].path)).intents
          ELSE <<>>) \o IntentsOfLeaves(i + 1, statuses)

\* C24: the intents collected by a tree tick are those of the leaves that
\* returned SUCCESS or RUNNING, in evaluation order; a leaf that returned
\* FAILURE adds none.
OnlyContributingLeavesAddIntents ==
    pc.phase = "apply" =>
        ctx_intents = IntentsOfLeaves(1, {"SUCCESS", "RUNNING"})

\* C24: a leaf returned FAILURE together with an intent, and the intent is in
\* the collected intents handed to the executor.
FailedLeafIntentCollected ==
    /\ pc.phase = "apply"
    /\ worker_root.type = "step"
    /\ bt_result = "FAILURE"
    /\ ctx_intents = <<DepositPheromoneIntent("hunger", IntV(1), NoneXY)>>

StepErrors == {i \in 1..Len(bt_trace) : bt_trace[i].raised \in {"missing", "Exception"}}

\* C25: a step that raises or whose name is not registered leaves its leaf
\* with FAILURE; the tree tick ends normally, the apply and post-sensor
\* phases of the agent follow and the next agent is ticked.
StepErrorsEndInFailure ==
    /\ [](\A i \in StepErrors : bt_trace[i].status = "FAILURE")
    /\ [][pc.phase = "bt" => pc' = Phase("apply", pc.agent)]_vars
    /\ [][(StepErrors # {} /\ pc.phase = "apply")
            => pc' = Phase("post", pc.agent)]_vars
    /\ [][(StepErrors # {} /\ pc.phase = "post" /\ pc.agent < NumAgents)
            => pc' = Phase("reset", pc.agent + 1)]_vars

\* C25 witness: the tree of the first agent had a raising step and an
\* unregistered one; the second agent has been ticked after it.
SecondAgentTickedAfterStepError ==
    /\ pc = Phase("post", NumAgents)
    /\ \E i \in StepErrors : bt_trace[i].raised = "Exception"
    /\ \E i \in StepErrors : bt_trace[i].raised = "missing"
    /\ bt_result = "FAILURE"

RECURSIVE IllFormed(_)
\* a definition with a node of unknown type, a composite without children,
\* or a condition or step without its payload
IllFormed(spec) ==
    \/ spec.type \notin {"sequence", "selector", "condition", "step"}
    \/ spec.type \in {"sequence", "selector"} /\ spec.children = <<>>
    \/ spec.type \in {"condition", "step"} /\ ~spec.payload
    \/ \E i \in 1..Len(spec.children) : IllFormed(spec.children[i])

\* C26: the construction of a tree from an ill-formed definition fails and
\* yields no tree.
IllFormedTreeRejected ==
    (pc.phase # "build" /\ IllFormed(tree_spec.root)) =>
        (pc.phase = "build_failed" /\ worker_root = NoTree)

\* C26: the builder returned a sequence without children, and the tick of
\* that tree returned SUCCESS.
EmptySequenceBuiltAndTicked ==
    /\ tree_spec.via = "builder"
    /\ tree_spec.root = CompositeSpec("sequence", <<>>)
    /\ pc.phase = "apply"
    /\ worker_root.type = "sequence"
    /\ worker_root.children = <<>>
    /\ bt_result = "SUCCESS"

\* C30: evaluate returns a boolean for every trigger and never raises; it
\* returns False for an unregistered name and for a trigger that raises.
EvaluateNeverRaises ==
    \A i \in 1..Len(bt_trace) :
        bt_trace[i].type = "trigger" =>
            /\ bt_trace[i].raised = ""
            /\ bt_trace[i].status \in {"True", "False"}
            /\ (bt_trace[i].name \notin TriggerNames => bt_trace[i].status = "False")
            /\ (bt_trace[i].name \in {"raises_value_error", "raises_type_error"}
                    => bt_trace[i].status = "False")

\* C30: evaluate was called for a trigger that raises TypeError on every
\* call, and the TypeError of the second call left evaluate.
EvaluateRaisedTypeError ==
    \E i \in 1..Len(bt_trace) :
        /\ bt_trace[i].type = "trigger"
        /\ bt_trace[i].name = "raises_type_error"
        /\ bt_trace[i].raised = "TypeError"

\* C27: after commit() the diff is empty; a commit() that directly follows a
\* commit() returns an empty diff and leaves the blackboard as it was.
CommitTwiceIsCommitOnce ==
    /\ [](last_call.op = "commit" => Diff(board) = NoChanges)
    /\ [](last_call.op = "commit" /\ last_call.prior = "commit"
            => last_call.returned = NoChanges)
    /\ [][(last_call.op = "commit" /\ last_call'.op = "commit"
            /\ last_call'.prior = "commit") => board' = board]_vars

\* C27 witness: a value was set and committed, and commit was called again.
CommittedTwice ==
    /\ last_call.op = "commit"
    /\ last_call.prior = "commit"
    /\ board.data["in_nest"] = True
    /\ board.previous_data = board.data

\* the values of the keys at the last commit, or at construction when commit
\* was not called yet
LastCommitted(b, committed) ==
    IF committed THEN b.previous_data ELSE NewBoard(1).data

\* C28: rollback() leaves every key with the value of the last commit, or of
\* the construction when nothing was committed, and an empty diff.
RollbackRestoresLastCommit ==
    [][last_call'.op = "rollback"
        => /\ board'.data = LastCommitted(board, last_call.committed)
           /\ Diff(board') = NoChanges]_vars

\* C28: rollback() was called on a blackboard that was never committed, and
\* the agent_id and cycle written at construction are gone.
RollbackLostConstructionValues ==
    /\ last_call.op = "rollback"
    /\ ~last_call.committed
    /\ board.data["agent_id"] = NoneV
    /\ board.data["cycle"] = NoneV

\* C29: a second update_worker directly after the first, with the same
\* environment, returns an empty diff.
SecondSensorRunChangesNothing ==
    (last_call.op = "update_worker" /\ last_call.prior = "update_worker")
        => last_call.returned = NoChanges

\* C29: the second of two sensor runs in a row changed signaling_hunger from
\* False to True for a hungry worker standing in the nest.
SecondSensorRunSetSignalingHunger ==
    /\ last_call.op = "update_worker"
    /\ last_call.prior = "update_worker"
    /\ sensor_env.in_nest
    /\ sensor_env.hungry
    /\ last_call.returned["signaling_hunger"] = Change(False, True)

\* C40: the intents collected by the leaves that were ticked are handed to
\* the executor, one event per intent and in order, whatever status the tree
\* returned; intents collected before a sequence failed are among them.
CollectedIntentsAppliedWhateverTheResult ==
    /\ [](pc.phase = "apply" =>
            ctx_intents = IntentsOfLeaves(1, {"SUCCESS", "RUNNING", "FAILURE"}))
    /\ [][(pc.phase = "apply" /\ ctx_intents # <<>>) =>
            /\ exec_summary'.called
            /\ Len(exec_summary'.events) = Len(ctx_intents)
            /\ \A i \in 1..Len(ctx_intents) :
                  exec_summary'.events[i].intent = ctx_intents[i]]_vars

\* C40 witness: the first child of a sequence returned SUCCESS with a food
\* deposit, the second failed and so did the sequence; the deposit has been
\* executed and staged in the field.
DepositAppliedAfterSequenceFailed ==
    /\ pc.phase = "post"
    /\ worker_root.type = "sequence"
    /\ bt_result = "FAILURE"
    /\ Len(bt_trace) = 3
    /\ bt_trace[1].status = "SUCCESS"
    /\ bt_trace[2].status = "FAILURE"
    /\ Len(exec_summary.executed) = 1
    /\ exec_summary.executed[1].intent = DepositPheromoneIntent("food", IntV(1), NoneXY)
    /\ FieldSum(deposits) > 0

BetweenTicks == pc = Phase("reset", 1) \/ pc.phase = "done"

\* C38: between ticks the pheromone value a cell shows to the sensors is the
\* value of the front buffer at that cell, for every type (front is kept
\* scaled by ScaleAt(nswaps)).
CellViewEqualsFront ==
    BetweenTicks =>
        \A t \in PTypes, c \in Cells :
            front[t][c] = cell_pheromones[t][c] * ScaleAt(nswaps)

\* C38: after the second tick a cell still shows the whole deposit of 1 made
\* in the first tick while the front buffer holds less than 1 at that cell,
\* the rest having evaporated or diffused.
CellViewKeepsRawDeposit ==
    /\ BetweenTicks
    /\ nswaps = 2
    /\ \E c \in Cells :
          /\ cell_pheromones["food"][c] = 1
          /\ front["food"][c] > 0
          /\ front["food"][c] < ScaleAt(nswaps)

\* C39: the position on an agent's blackboard names the one cell whose
\* occupant is that agent; an executed Move clears the old cell, installs the
\* agent in the new cell and changes the occupant of no other cell.
MoveUpdatesOccupancy ==
    /\ [](\A a \in Agents, c \in Cells :
            grid_ant[c] = a <=> c = blackboard[a].position)
    /\ [][(/\ pc.phase = "apply"
           /\ \E i \in 1..Len(exec_summary'.events) :
                 IsExecutedMove(exec_summary'.events[i]))
            => LET a == pc.agent
                   old == blackboard[a].position
                   new == blackboard'[a].position
               IN  /\ old # new
                   /\ grid_ant'[old] = NoAnt
                   /\ grid_ant'[new] = a
                   /\ \A c \in Cells \ {old, new} : grid_ant'[c] = grid_ant[c]]_vars

\* C39 witness: the second agent has moved one cell to the right; its old
\* cell is empty and the new one holds it.
MovedAgentOccupiesNewCell ==
    /\ pc = Phase("post", 2)
    /\ \E i \in 1..Len(exec_summary.events) : IsExecutedMove(exec_summary.events[i])
    /\ blackboard[2].position = <<2, 0>>
    /\ grid_ant[<<2, 0>>] = 2
    /\ grid_ant[InitialPosition(2)] = NoAnt

\* who offers a name for a kind
Offering(kind, name) ==
    {j \in 1..Len(pm_plugins) :
        \E i \in 1..Len(pm_plugins[j][kind]) : pm_plugins[j][kind][i] = name}

KindSet == {Kinds[k] : k \in 1..Len(Kinds)}

\* C31: a name offered more than once is rejected with an error naming the
\* name and both origins, and after a successful discovery no name is held
\* by two plugins or by two of the tables steps, triggers and sensors.
RegisteredNamesGloballyUnique ==
    /\ discovery.state = "failed" =>
          /\ discovery.error.name \in RegNames
          /\ discovery.error.existing # discovery.error.new
    /\ discovery.state = "done" =>
          /\ \A kind \in KindSet, n \in RegNames : Cardinality(Offering(kind, n)) <= 1
          /\ \A k1, k2 \in KindSet :
                k1 # k2 => DOMAIN registry[k1] \cap DOMAIN registry[k2] = {}

\* What the registration does guarantee: a name offered by two plugins for
\* the same table is rejected with an error naming the kind, the name and both
\* origins; after a successful discovery every table holds each offered name
\* once, with the one plugin that offered it.
RegisteredNamesUniquePerTable ==
    /\ discovery.state # "new" =>
          (discovery.state = "failed" <=>
             \E kind \in KindSet, n \in RegNames : Cardinality(Offering(kind, n)) > 1)
    /\ discovery.state = "failed" =>
          LET e == discovery.error
          IN  /\ e.kind \in KindSet
              /\ Offering(e.kind, e.name) = {1, 2}
              /\ {e.existing, e.new} = {Origins[1], Origins[2]}
    /\ discovery.state = "done" =>
          \A kind \in KindSet :
             /\ DOMAIN registry[kind] = {n \in RegNames : Offering(kind, n) # {}}
             /\ \A n \in DOMAIN registry[kind] :
                   registry[kind][n] \in
                      {pm_plugins[j].origin : j \in Offering(kind, n)}

\* C31 witness: discovery succeeded with one name registered both as a
\* trigger and as a sensor, by different plugins.
SameNameInTwoTables ==
    /\ discovery.state = "done"
    /\ "direct_feeding_opportunity" \in DOMAIN registry["trigger"]
    /\ "direct_feeding_opportunity" \in DOMAIN registry["sensor"]
    /\ registry["trigger"]["direct_feeding_opportunity"]
         # registry["sensor"]["direct_feeding_opportunity"]

\* C35: a status or stop request for a run_id that was never started is
\* answered with HTTP 404.
UnknownRunIsNotFound ==
    (response.op \in {"status", "stop"} /\ response.run_id \notin DOMAIN runs)
        => response.status_code = 404

\* C35: the status request for a run that was never started has been
\* answered with HTTP 200 and an error object.
UnknownRunAnsweredWith200 ==
    /\ response.op = "status"
    /\ response.run_id = "nonexistent-run-id"
    /\ response.run_id \notin DOMAIN runs
    /\ response.status_code = 200
    /\ response.body = Body("", "error", "run_id not found")

\* C34: two runs with the same configuration, plugins and initial state have
\* the same agent positions after the same number of agent-ticks.
IdenticalRunsAgree ==
    run_step[1] = run_step[2] => run_positions[1] = run_positions[2]

\* C34: after the first agent-tick of each run the first agent stands on
\* different cells in the two runs.
RunsDivergedAtFirstTick ==
    /\ run_step[1] = 1
    /\ run_step[2] = 1
    /\ run_positions[1][1] # run_positions[2][1]

InSeq(x, seq) == \E i \in 1..Len(seq) : seq[i] = x
Count(x, seq) == Cardinality({i \in 1..Len(seq) : seq[i] = x})
LivingQueens == {queens[i] : i \in 1..Len(queens)}

\* C32: an agent that died in an earlier tick is no longer in the registry
\* and is neither ticked by the BT engine nor given an energy cycle.
DeadAgentsLeaveTheRun ==
    \A id \in tick_log.dead_before :
        /\ id \notin ant_registry
        /\ ~InSeq(id, tick_log.bt_ticked)
        /\ ~InSeq(id, tick_log.cycled)

\* C32: the queen starved in an earlier tick and has left the registry and
\* the list of queens, and the BT engine has ticked her again in this tick.
DeadQueenTickedAgain ==
    /\ InitialQueens[1] \in tick_log.dead_before
    /\ InitialQueens[1] \notin ant_registry
    /\ queens = <<>>
    /\ InSeq(InitialQueens[1], tick_log.bt_ticked)
    /\ ~InSeq(InitialQueens[1], tick_log.cycled)

\* C33: a queen lays at tick t only if t - last_egg_tick >= interval,
\* eggs_laid < max_eggs and energy = max_energy; the lay adds one to
\* eggs_laid and sets last_egg_tick to t; eggs_laid never exceeds max_eggs
\* and two lays are at least interval ticks apart.
EggLayingWithinLimits ==
    /\ [](\A q \in DOMAIN queen_bb :
            /\ queen_bb[q].eggs_laid <= queen_bb[q].max_eggs
            /\ queen_bb[q].eggs_laid = Len(tick_log.laid)
            /\ \A i \in 1..Len(tick_log.laid) :
                  tick_log.laid[i] - (IF i = 1 THEN 0 ELSE tick_log.laid[i - 1])
                     >= queen_bb[q].egg_laying_interval)
    /\ [][\A q \in DOMAIN queen_bb :
            LET b == queen_bb[q]
                after == queen_bb'[q]
            IN  (after.eggs_laid # b.eggs_laid \/ after.last_egg_tick # b.last_egg_tick)
                   => /\ cycle_count - b.last_egg_tick >= b.egg_laying_interval
                      /\ b.eggs_laid < b.max_eggs
                      /\ after.energy = after.max_energy
                      /\ after.eggs_laid = b.eggs_laid + 1
                      /\ after.last_egg_tick = cycle_count]_vars

\* C33 witness: a queen with interval 2 has laid her two eggs, at ticks 2
\* and 4.
TwoEggsAnIntervalApart ==
    /\ tick_log.laid = <<2, 4>>
    /\ queen_bb[InitialQueens[1]].egg_laying_interval = 2
    /\ queen_bb[InitialQueens[1]].eggs_laid = 2
    /\ queen_bb[InitialQueens[1]].last_egg_tick = 4

\* the hunger deposits due on a cell: one of every living queen and brood
\* on it whose energy is below max_energy
HungerDue(c) ==
    QueenHungerStrength * Cardinality({q \in LivingQueens :
        blackboard[q].position = c /\ queen_bb[q].energy < queen_bb[q].max_energy})
    + BroodHungerStrength * Cardinality({id \in DOMAIN brood_registry :
        /\ brood_registry[id].position = c
        /\ brood_registry[id].energy < brood_registry[id].max_energy})

AliveInTick == LivingQueens \cup DOMAIN brood_registry \cup tick_log.died

\* C37: in every tick, ended or broken off, the energy cycle is applied
\* exactly once to each queen and brood alive in it.
EnergyCycleOncePerTick ==
    pc.phase \in {"life_swap", "life_crashed"} =>
        /\ \A id \in AliveInTick : Count(id, tick_log.cycled) = 1
        /\ \A i \in 1..Len(tick_log.cycled) : tick_log.cycled[i] \in AliveInTick

\* In the ticks that reach their end the energy cycle is applied exactly
\* once to each queen and brood alive in them.
EnergyCycleOncePerEndedTick ==
    pc.phase = "life_swap" =>
        /\ \A id \in AliveInTick : Count(id, tick_log.cycled) = 1
        /\ \A i \in 1..Len(tick_log.cycled) : tick_log.cycled[i] \in AliveInTick

\* C37: the tick of a worker raised, the run broke off, and the living queen
\* got no energy cycle in this tick.
QueenUncycledInBrokenTick ==
    /\ pc.phase = "life_crashed"
    /\ queens = InitialQueens
    /\ tick_log.bt_ticked = all_agents
    /\ tick_log.cycled = <<>>
====
